---- MODULE Spec2Model ----
(***************************************************************************)
(* A model of the l1-earth-visualizer Svelte components:                   *)
(*   src/src/lib/EarthVisualizer.svelte  (specification Spec)              *)
(*   src/unnamed/part_001                (specification SpecP1)            *)
(*                                                                         *)
(* Numbers.  JavaScript doubles are modelled in fixed point:               *)
(*   angles          in microdegrees (1 degree = 1000000),                 *)
(*   sines, cosines  scaled by FineScale (1.0 = 100000000) in the solar    *)
(*                   formulas and in the cone test, by TrigScale (1.0 =    *)
(*                   10000) in the projection and the visibility test; a   *)
(*                   decision of the two tests that falls within the error *)
(*                   of the fixed-point numbers is left to Rounding,       *)
(*   instants (Date) in whole seconds since the Unix epoch, UTC,           *)
(*   NaN             by the value NaN, which every operation propagates.   *)
(* The remainder operator % of JavaScript truncates toward zero and keeps  *)
(* the sign of the dividend; JsRem models it.                              *)
(***************************************************************************)
EXTENDS Integers, Sequences, FiniteSets, TLC

\* ------------------------------------------------------------------------
\* EarthVisualizer.svelte: state
\* ------------------------------------------------------------------------

VARIABLES
  xBandStations,   \* the stations with their canSeeDscovr / canSeeAce flags
  epicData,        \* Null, or the EPIC record
  satelliteData,   \* Null, or the fetched document
  worldData,       \* Null, or the land masses
  selectedDate,    \* the selected instant
  loading,         \* the loading indicator
  error,           \* Null, or the message of the error indicator
  size,            \* <<width, height>> of the container
  projection,      \* the projection: rotation, scale, translation
  isRotating,      \* the flag of the animated state
  svg,             \* the svg element in the document: its identity, 0 if none
  transitions,     \* the d3 transitions not yet ended, oldest first
  uv,              \* the updateVisualization call: where it is suspended
  hist,            \* history of the run, read by the properties only
  p1,              \* the component of src/unnamed/part_001
  p0,              \* the component of src/unnamed/part_000
  fn               \* the arguments and the result of a function applied on its own

vars == << xBandStations, epicData, satelliteData, worldData, selectedDate, loading,
           error, size, projection, isRotating, svg, transitions, uv, hist, p1, p0, fn >>

\* ------------------------------------------------------------------------
\* Fixed-point arithmetic
\* ------------------------------------------------------------------------

\* 1.0 of a sine or cosine.
TrigScale == 10000

\* One degree, in the unit of the angles (microdegrees).
Deg == 1000000

\* The value of a JavaScript NaN or of Number(undefined).
NaN == -2147483647

\* The JavaScript null (and undefined) of a variable.
Null == << >>

\* !x for a variable that holds null or an object or a non-empty string.
IsNull(x) == Null = x

IsNaN(x) == x = NaN

Abs(x) == IF x < 0 THEN -x ELSE x

\* const x = v; F(x): the value v is computed once and F works on it.
With(v, F(_)) == CHOOSE r \in {F(x) : x \in {v}} : TRUE

\* Division of doubles, rounded toward zero to the fixed-point grid.
TDiv(a, b) == IF a >= 0 THEN a \div b ELSE -((-a) \div b)

\* JavaScript a % n for n > 0: the result has the sign of a.
JsRem(a, n) == a - n * TDiv(a, n)

\* Math.sin at whole degrees 0..90, times TrigScale.
SinTable ==
  << 0, 175, 349, 523, 698, 872, 1045, 1219, 1392, 1564,
     1736, 1908, 2079, 2250, 2419, 2588, 2756, 2924, 3090, 3256,
     3420, 3584, 3746, 3907, 4067, 4226, 4384, 4540, 4695, 4848,
     5000, 5150, 5299, 5446, 5592, 5736, 5878, 6018, 6157, 6293,
     6428, 6561, 6691, 6820, 6947, 7071, 7193, 7314, 7431, 7547,
     7660, 7771, 7880, 7986, 8090, 8192, 8290, 8387, 8480, 8572,
     8660, 8746, 8829, 8910, 8988, 9063, 9135, 9205, 9272, 9336,
     9397, 9455, 9511, 9563, 9613, 9659, 9703, 9744, 9781, 9816,
     9848, 9877, 9903, 9925, 9945, 9962, 9976, 9986, 9994, 9998,
     10000 >>

\* Math.sin on [0, 90] degrees: the table, interpolated linearly.
SinQuadrant(a) ==
  LET k == a \div Deg
      f == a % Deg
  IN  IF k >= 90 THEN TrigScale
      ELSE SinTable[k + 1] + ((SinTable[k + 2] - SinTable[k + 1]) * f) \div Deg

\* Math.sin(a * Math.PI / 180) for an angle a in microdegrees.
Sin(a) ==
  LET r == a % (360 * Deg)
  IN  IF r <= 90 * Deg THEN SinQuadrant(r)
      ELSE IF r <= 180 * Deg THEN SinQuadrant(180 * Deg - r)
      ELSE IF r <= 270 * Deg THEN -SinQuadrant(r - 180 * Deg)
      ELSE -SinQuadrant(360 * Deg - r)

\* Math.cos(a * Math.PI / 180).
Cos(a) == Sin(a + 90 * Deg)

\* 1.0 of a sine or cosine of the solar formulas and of the cone test.
FineScale == 100000000

\* In the definitions below [x \in Int |-> e][v] is e for x = v: v is computed
\* once (const x = v).

\* a * b of two nonnegative numbers scaled by FineScale, in 32-bit steps.
MulAbs(x, y) ==
  (x \div 10000) * (y \div 10000)
    + ((x \div 10000) * (y % 10000) + (x % 10000) * (y \div 10000)
         + ((x % 10000) * (y % 10000)) \div 10000) \div 10000

\* a * b of two numbers scaled by FineScale, rounded toward zero.
Mul(a, b) ==
  [x \in Int, y \in Int |->
     IF (x < 0) = (y < 0) THEN MulAbs(Abs(x), Abs(y))
     ELSE -MulAbs(Abs(x), Abs(y))][a, b]

\* Math.sin at whole degrees 0..90, times FineScale.
SinFineTable ==
  << 0, 1745241, 3489950, 5233596, 6975647, 8715574, 10452846, 12186934,
     13917310, 15643447, 17364818, 19080900, 20791169, 22495105, 24192190,
     25881905, 27563736, 29237170, 30901699, 32556815, 34202014, 35836795,
     37460659, 39073113, 40673664, 42261826, 43837115, 45399050, 46947156,
     48480962, 50000000, 51503807, 52991926, 54463904, 55919290, 57357644,
     58778525, 60181502, 61566148, 62932039, 64278761, 65605903, 66913061,
     68199836, 69465837, 70710678, 71933980, 73135370, 74314483, 75470958,
     76604444, 77714596, 78801075, 79863551, 80901699, 81915204, 82903757,
     83867057, 84804810, 85716730, 86602540, 87461971, 88294759, 89100652,
     89879405, 90630779, 91354546, 92050485, 92718385, 93358043, 93969262,
     94551858, 95105652, 95630476, 96126170, 96592583, 97029573, 97437006,
     97814760, 98162718, 98480775, 98768834, 99026807, 99254615, 99452190,
     99619470, 99756405, 99862953, 99939083, 99984770, 100000000 >>

\* Math.sin on [0, 90] degrees, times FineScale: sin(k + r) = sin k cos r +
\* cos k sin r for the whole degrees k and the rest r < 1 degree, r in radians
\* (r * Math.PI / 180), sin r = r - r^3 / 6 and cos r = 1 - r^2 / 2.
SinFineQuadrant(a) ==
  IF a >= 90 * Deg THEN FineScale
  ELSE [r \in Int |->
          [r2 \in Int |->
             Mul(SinFineTable[a \div Deg + 1], FineScale - r2 \div 2)
               + Mul(SinFineTable[91 - a \div Deg], r - Mul(r2, r) \div 6)
          ][Mul(r, r)]
       ][Mul(a % Deg, 174532925)]

\* Math.sin(a * Math.PI / 180), times FineScale.
SinFine(a) ==
  [r \in Int |->
     IF r <= 180 * Deg
     THEN SinFineQuadrant(IF r <= 90 * Deg THEN r ELSE 180 * Deg - r)
     ELSE -SinFineQuadrant(IF r <= 270 * Deg THEN r - 180 * Deg ELSE 360 * Deg - r)
  ][a % (360 * Deg)]

\* Math.cos(a * Math.PI / 180), times FineScale.
CosFine(a) == SinFine((a % (360 * Deg)) + 90 * Deg)

\* Newton's iteration for the root of n, downward from s, which is no less
\* than the root.
RECURSIVE SqrtNewton(_, _)
SqrtNewton(n, s) ==
  [t \in Int |-> IF t >= s THEN s ELSE SqrtNewton(n, t)][(s + n \div s) \div 2]

\* Math.sqrt on the integers, rounded down.
Sqrt(n) ==
  [v \in Int |->
     IF v = 0 THEN 0
     ELSE SqrtNewton(v, IF v < 10000 THEN 100
                        ELSE IF v < 1000000 THEN 1000
                        ELSE IF v < 100000000 THEN 10000
                        ELSE 46341)][n]

\* Math.sqrt of a number scaled by FineScale: the root s of the integer part
\* and the first correction (w - s * s) / (2 s).
SqrtFine(w) ==
  [v \in Int |->
     [s \in Int |-> IF s = 0 THEN 0 ELSE s * 10000 + ((v - s * s) * 5000) \div s
     ][Sqrt(v)]][w]

\* A long division by d carried n decimal digits on from the quotient q and
\* the rest r.
RECURSIVE DivDigits(_, _, _, _)
DivDigits(q, r, d, n) ==
  IF n = 0 THEN q
  ELSE [q2 \in Int, r2 \in Int |-> DivDigits(q2, r2, d, n - 1)
       ][q * 10 + (r * 10) \div d, (r * 10) % d]

\* p / d of two numbers scaled by FineScale, |p| < 2 d, in 32-bit steps.
DivFine(p, d) ==
  [x \in Int, y \in Int |->
     IF x < 0 THEN -DivDigits((-x) \div y, (-x) % y, y, 8)
     ELSE DivDigits(x \div y, x % y, y, 8)][p, d]

\* One Newton step toward Math.asin(x): a + (x - sin a) / cos a, the quotient
\* brought from radians to microdegrees (* 180 / Math.PI).
AsinStep(x, a) == a + Mul(DivFine(x - SinFine(a), CosFine(a)), 57295780)

\* The arc sine of x, |x| <= sin 45, in microdegrees: two Newton steps from the
\* series x + x^3 / 6 + 3 x^5 / 40.
AsinNewton(x) ==
  [a0 \in Int |-> [a1 \in Int |-> AsinStep(x, a1)][AsinStep(x, a0)]
  ][[x2 \in Int |->
       Mul(x + Mul(Mul(x2, x), 16666667 + Mul(x2, 7500000)), 57295780)][Mul(x, x)]]

\* Math.asin(x) * 180 / Math.PI for x scaled by FineScale; NaN outside [-1, 1].
\* Beyond sin 45 the angle is taken from its cosine, sqrt((1 - x) (1 + x)),
\* which there is the better conditioned of the two.
AsinFine(x) ==
  [v \in Int |->
     IF IsNaN(v) \/ Abs(v) > FineScale THEN NaN
     ELSE IF Abs(v) <= 70710678 THEN AsinNewton(v)
     ELSE [c \in Int |-> IF v < 0 THEN c - 90 * Deg ELSE 90 * Deg - c
          ][AsinNewton(SqrtFine(Mul(FineScale - Abs(v), FineScale + Abs(v))))]
  ][x]

\* Math.acos(x) * 180 / Math.PI for x scaled by FineScale; NaN outside [-1, 1].
AcosFine(x) ==
  [a \in Int |-> IF IsNaN(a) THEN NaN ELSE 90 * Deg - a][AsinFine(x)]

\* ------------------------------------------------------------------------
\* Dates: an instant is a number of seconds since 1970-01-01T00:00:00Z
\* ------------------------------------------------------------------------

SecondsPerDay == 86400

\* The environment's offset of local time from UTC, in hours (no DST).
TzHours == 0

\* Days from 1970-01-01 to the first day of month m (0-based, any integer) of
\* year y, plus dt - 1: MakeDay of ECMAScript, which carries an overflowing
\* month into the year and an overflowing day into the following months.
MakeDay(y, m, dt) ==
  LET ym == y + (m \div 12)
      mn == (m % 12) + 1
      yy == IF mn <= 2 THEN ym - 1 ELSE ym
      era == yy \div 400
      yoe == yy - era * 400
      mp == IF mn > 2 THEN mn - 3 ELSE mn + 9
      doy == (153 * mp + 2) \div 5
      doe == yoe * 365 + (yoe \div 4) - (yoe \div 100) + doy
  IN  era * 146097 + doe - 719468 + (dt - 1)

\* The civil date [y, m (0-based), d] of a day number.
CivilFromDays(z) ==
  LET zz == z + 719468
      era == zz \div 146097
      doe == zz - era * 146097
      yoe == (doe - (doe \div 1460) + (doe \div 36524) - (doe \div 146096)) \div 365
      doy == doe - (365 * yoe + (yoe \div 4) - (yoe \div 100))
      mp == (5 * doy + 2) \div 153
      d == doy - ((153 * mp + 2) \div 5) + 1
      mn == IF mp < 10 THEN mp + 3 ELSE mp - 9
      y == yoe + era * 400 + (IF mn <= 2 THEN 1 ELSE 0)
  IN  [y |-> y, m |-> mn - 1, d |-> d]

LocalSeconds(t) == t + TzHours * 3600

\* Date.prototype.getFullYear / getMonth / getDate / getHours / ... (local time).
getFullYear(t) == CivilFromDays(LocalSeconds(t) \div SecondsPerDay).y
getMonth(t) == CivilFromDays(LocalSeconds(t) \div SecondsPerDay).m
getDate(t) == CivilFromDays(LocalSeconds(t) \div SecondsPerDay).d
TimeInDay(t) == LocalSeconds(t) % SecondsPerDay
getHours(t) == TimeInDay(t) \div 3600
getMinutes(t) == (TimeInDay(t) % 3600) \div 60
getSeconds(t) == TimeInDay(t) % 60

\* Date.prototype.getUTCHours.
getUTCHours(t) == (t % SecondsPerDay) \div 3600

\* The instant of a local calendar day and a local time within the day.
MakeDate(day, timeInDay) == day * SecondsPerDay + timeInDay - TzHours * 3600

\* Date.prototype.setFullYear(y), setMonth(m), setDate(d): the one field is
\* replaced, the others are kept, and the result is normalised by MakeDay.
setFullYear(t, y) == MakeDate(MakeDay(y, getMonth(t), getDate(t)), TimeInDay(t))
setMonth(t, m) == MakeDate(MakeDay(getFullYear(t), m, getDate(t)), TimeInDay(t))
setDate(t, d) == MakeDate(MakeDay(getFullYear(t), getMonth(t), d), TimeInDay(t))

\* Date.prototype.setHours(h), setMinutes(mi), setSeconds(s).
setHours(t, h) ==
  MakeDate(LocalSeconds(t) \div SecondsPerDay, h * 3600 + (TimeInDay(t) % 3600))
setMinutes(t, mi) ==
  MakeDate(LocalSeconds(t) \div SecondsPerDay,
           getHours(t) * 3600 + mi * 60 + getSeconds(t))
setSeconds(t, s) ==
  MakeDate(LocalSeconds(t) \div SecondsPerDay,
           getHours(t) * 3600 + getMinutes(t) * 60 + s)

\* ------------------------------------------------------------------------
\* calculateEarthOrientation: the subsolar point of an instant
\* ------------------------------------------------------------------------

\* 2000-01-01T12:00:00Z (JD 2451545.0) in seconds since the Unix epoch.
J2000 == 946728000

\* (JD - 2451545.0): whole days since J2000 and the seconds beyond them, both
\* with the sign of the difference.
DaysSinceJ2000(t) == TDiv(t - J2000, SecondsPerDay)
SecsSinceJ2000(t) == JsRem(t - J2000, SecondsPerDay)

\* The doubles round: the value they give a quantity differs from the exact
\* one by a rounding error too small for the fixed-point numbers.  Where a
\* decision of the code falls within their error, it is taken by the
\* sign of that rounding error, which the model leaves open: the computed value
\* is below the exact one (-1), equal to it (0) or above it (1).
Rounding == fn.rounding

\* The error of the angles of the solar chain before their % 360: each is
\* within this many microdegrees of the number the doubles give.
WrapError == 8

\* x % 360 of a number x given up to whole turns by w, in sign by sign (1 or
\* -1), and by whether it is far from 0 (about half a turn or more), so that
\* a remainder next to 0 is that of a whole turn.  The remainder keeps
\* the sign of x.  Where x is within WrapError of a whole turn other than 0,
\* the side of it the double falls on is left to its rounding: just below the
\* turn in magnitude the remainder is almost 360 (-360), at it or above it is
\* almost 0.
RemOfTurns(w, sign, beyond) ==
  [r \in Int |->
     IF Abs(r) >= 360 * Deg - WrapError /\ Rounding * sign > 0 THEN 0
     ELSE IF beyond /\ Abs(r) <= WrapError /\ Rounding * sign < 0
     THEN sign * (360 * Deg - 1)
     ELSE r
  ][[r \in Int |-> IF sign < 0 /\ r > 0 THEN r - 360 * Deg
                   ELSE IF sign > 0 /\ r < 0 THEN r + 360 * Deg
                   ELSE r][JsRem(w, 360 * Deg)]]

\* L0 = (280.46646 + 36000.76983 * T) % 360, T = (JD - 2451545.0) / 36525:
\* 36000.76983 / 36525 = 0.98564736016 degrees a day, 11.407956 microdegrees
\* a second; the sum is negative more than 284.5505 days before J2000.
MeanLongitude(t) ==
  LET d == DaysSinceJ2000(t)
      s == SecsSinceJ2000(t)
  IN  RemOfTurns(280466460 + JsRem(d * 985, 360000) * 1000 + d * 647
                   + TDiv(d * 36016, 100000)
                   + TDiv(s * 11408, 1000) - TDiv(s * 44, 1000000),
                 IF t - J2000 < -24585164 THEN -1 ELSE 1,
                 Abs(t - J2000 + 24585164) > 180 * SecondsPerDay)

\* M = (357.52911 + 35999.05029 * T) % 360: 0.98560028172 degrees a day,
\* 11.407411 microdegrees a second; negative more than 362.7526 days before
\* J2000.
MeanAnomaly(t) ==
  LET d == DaysSinceJ2000(t)
      s == SecsSinceJ2000(t)
  IN  RemOfTurns(357529110 + JsRem(d * 985, 360000) * 1000 + d * 600
                   + TDiv(d * 28172, 100000)
                   + TDiv(s * 11407, 1000) + TDiv(s * 411, 1000000),
                 IF t - J2000 < -31341828 THEN -1 ELSE 1,
                 Abs(t - J2000 + 31341828) > 180 * SecondsPerDay)

\* C = 1.9148 * sin(M) + 0.0200 * sin(2 M).
EquationOfCenter(t) ==
  Mul(1914800, SinFine(MeanAnomaly(t))) + Mul(20000, SinFine(2 * MeanAnomaly(t)))

\* lambda = (L0 + C) % 360.
EclipticLongitude(t) ==
  [x \in Int |-> RemOfTurns(x, IF x < 0 THEN -1 ELSE 1, Abs(x) > 180 * Deg)
  ][MeanLongitude(t) + EquationOfCenter(t)]

\* epsilon = 23.43929111 - (46.8150 * T + 0.00059 * T**2) / 3600:
\* 46.8150 / 3600 / 36525 = 0.35603 microdegrees a day.
Obliquity(t) ==
  LET d == DaysSinceJ2000(t)
  IN  23439291 - TDiv(d * 35603, 100000)
               - TDiv(TDiv(d * d, 36525) * 164, 36525000)

\* subsolarLon = (lambda - 180 + getUTCHours * 15) % 360.
subsolarLon(t) ==
  [x \in Int |-> RemOfTurns(x, IF x < 0 THEN -1 ELSE 1, Abs(x) > 180 * Deg)
  ][EclipticLongitude(t) - 180 * Deg + getUTCHours(t) * 15 * Deg]

\* subsolarLat = asin(sin(epsilon) * sin(lambda)).
subsolarLat(t) ==
  AsinFine(Mul(SinFine(Obliquity(t)), SinFine(EclipticLongitude(t))))

\* ------------------------------------------------------------------------
\* The projection (d3.geoOrthographic) and the two geometric tests
\* ------------------------------------------------------------------------

\* d3.geoOrthographic().scale(size / 2.5).translate([w / 2, h / 2]).clipAngle(90):
\* a fresh projection has the rotation [0, 0, 0].
geoOrthographic(w, h) ==
  [rotate |-> <<0, 0, 0>>,
   scale |-> ((IF w < h THEN w ELSE h) * 10) \div 25,
   translate |-> <<w \div 2, h \div 2>>]

\* projection.rotate([lambda, phi, gamma]): d3 keeps each angle % 360.
Rotate(proj, r) ==
  [proj EXCEPT !.rotate = <<JsRem(r[1], 360 * Deg), JsRem(r[2], 360 * Deg),
                            JsRem(r[3], 360 * Deg)>>]

\* projection([lon, lat]): the screen point of the rotated point under the
\* orthographic projection, x = cos(lat) sin(l) and y = sin(lat) cos(dp) +
\* cos(l) cos(lat) sin(dp) for l = lon + rotate[0] and dp = rotate[1].  d3
\* returns a point for every finite input (the clip angle acts on streamed
\* geometry only), never null.
ProjectionPoint(proj, lon, lat) ==
  LET l == lon + proj.rotate[1]
      dp == proj.rotate[2]
      x == TDiv(Cos(lat) * Sin(l), TrigScale)
      y == TDiv(Sin(lat) * Cos(dp), TrigScale)
             + TDiv(TDiv(Cos(l) * Cos(lat), TrigScale) * Sin(dp), TrigScale)
  IN  << proj.translate[1] + TDiv(proj.scale * x, TrigScale),
         proj.translate[2] - TDiv(proj.scale * y, TrigScale) >>

\* cosDistance of isPointVisible, times TrigScale squared.
CosDistance(proj, lon, lat) ==
  LET lambdaC == -proj.rotate[1]
      phiC == -proj.rotate[2]
  IN  Sin(lat) * Sin(phiC)
        + TDiv(Cos(lat) * Cos(phiC), TrigScale) * Cos(lon - lambdaC)

\* isPointVisible(coords, lon, lat): cosDistance > 0, the point is on the front
\* hemisphere.  No double of Math.cos is 0 (Math.cos(Math.PI / 2) is 6.1e-17),
\* so that on the horizon cosDistance is its rounding error.
isPointVisible(proj, coords, lon, lat) ==
  With(CosDistance(proj, lon, lat), LAMBDA cosDistance :
    IF Abs(cosDistance) <= 5 * TrigScale THEN Rounding > 0
    ELSE cosDistance > 0)

\* Math.sin and Math.cos of a multiple of 90 degrees are exact where the value
\* is 1 or -1, and so is the sine of 0; elsewhere they are a rounding error
\* (Math.sin(Math.PI) is 1.2e-16, Math.sin(2 * Math.PI) is -2.4e-16 and
\* Math.cos(Math.PI / 2) is 6.1e-17).
SinExact(a) == a = 0 \/ (a % (360 * Deg)) \in {90 * Deg, 270 * Deg}
CosExact(a) == (a % (360 * Deg)) \in {0, 180 * Deg}

\* dotProduct of isInCone is computed without a rounding error: the satellite
\* is on one axis, so that its normalized vector is exact and the two other
\* products are 0, and the station's component on that axis is exact.
ExactDot(stationLat, stationLon, satX, satY, satZ) ==
  \/ /\ satX # 0 /\ satY = 0 /\ satZ = 0
     /\ CosExact(stationLat) /\ CosExact(stationLon)
  \/ /\ satX = 0 /\ satY # 0 /\ satZ = 0
     /\ \/ stationLon = 0
        \/ CosExact(stationLat) /\ SinExact(stationLon)
  \/ /\ satX = 0 /\ satY = 0 /\ satZ # 0
     /\ SinExact(stationLat)

\* The satellite vector brought to a length the 32-bit products can take: its
\* largest component is between FineScale / 2 and FineScale.  A vector on one
\* axis is brought to the length 1: for it satDist = Math.sqrt(x * x) is the
\* double |x| and x / satDist is 1 or -1, whatever its length.
ScaledVector(satX, satY, satZ) ==
  [m \in Int |->
     IF m = Abs(satX) + Abs(satY) + Abs(satZ)
     THEN << TDiv(satX, m) * FineScale, TDiv(satY, m) * FineScale,
             TDiv(satZ, m) * FineScale >>
     ELSE IF m <= FineScale
     THEN << satX * (FineScale \div m), satY * (FineScale \div m),
             satZ * (FineScale \div m) >>
     ELSE << TDiv(satX, (m + FineScale - 1) \div FineScale),
             TDiv(satY, (m + FineScale - 1) \div FineScale),
             TDiv(satZ, (m + FineScale - 1) \div FineScale) >>
  ][IF Abs(satX) >= Abs(satY) /\ Abs(satX) >= Abs(satZ) THEN Abs(satX)
    ELSE IF Abs(satY) >= Abs(satZ) THEN Abs(satY) ELSE Abs(satZ)]

\* dotProduct of isInCone, times FineScale; NaN for a vector with a NaN
\* component or of length 0 (0 / 0).  In the sum the three terms are stationX
\* satX, stationY satY and stationZ satZ, in the divisor satDist.
DotProduct(stationLat, stationLon, satX, satY, satZ) ==
  IF IsNaN(satX) \/ IsNaN(satY) \/ IsNaN(satZ) THEN NaN
  ELSE IF satX = 0 /\ satY = 0 /\ satZ = 0 THEN NaN
  ELSE
    [cosLat \in Int, sat \in Seq(Int) |->
       DivFine(Mul(Mul(cosLat, CosFine(stationLon)), sat[1])
                 + Mul(Mul(cosLat, SinFine(stationLon)), sat[2])
                 + Mul(SinFine(stationLat), sat[3]),
               SqrtFine(Mul(sat[1], sat[1]) + Mul(sat[2], sat[2]) + Mul(sat[3], sat[3])))
    ][CosFine(stationLat), ScaledVector(satX, satY, satZ)]

\* The error of DotProduct: it is within this many units of 1 / FineScale of
\* the dotProduct the doubles give.
DotError == 20

\* The satellite is at the zenith or at the nadir of the station, as far as
\* the fixed-point numbers can tell.
Aligned(dotProduct) == Abs(dotProduct) >= FineScale - 4 * DotError

\* zenithAngle of isInCone, in microdegrees, or NaN, for the dotProduct and
\* for whether it is exact.  Math.acos is NaN beyond 1 and -1, where the
\* rounding can put the dotProduct of a satellite at the zenith or at the
\* nadir; within 1 and -1 the angle of such a satellite is 0 or 180 as far as
\* the fixed-point numbers can tell.
ZenithAngle(dotProduct, exact) ==
  IF IsNaN(dotProduct) THEN NaN
  ELSE IF exact THEN AcosFine(dotProduct)
  ELSE IF Aligned(dotProduct)
  THEN IF dotProduct > 0
       THEN IF Rounding > 0 THEN NaN ELSE 0
       ELSE IF Rounding < 0 THEN NaN ELSE 180 * Deg
  ELSE AcosFine(dotProduct)

\* The error of ZenithAngle, in microdegrees: that of dotProduct (DotError /
\* FineScale) over the sine of the angle, brought to degrees (180 / Math.PI is
\* 57295780 microdegrees); the angle of a dotProduct of 1 - 5 DotError /
\* FineScale for an aligned satellite; none where dotProduct is exact, whose
\* angles are 0, 90 and 180.
AngleError(dotProduct, exact) ==
  IF IsNaN(dotProduct) \/ exact THEN 0
  ELSE IF Aligned(dotProduct) THEN 81100
  ELSE (DotError * 57295780)
         \div SqrtFine(Mul(FineScale - Abs(dotProduct) - DotError,
                           FineScale + Abs(dotProduct) + DotError))

\* effectiveAngle <= coneAngle / 2, for the zenith angle or, with
\* supplementary, 180 minus it.  A comparison with NaN is false.  Within the
\* error of the angle the two sides are equal but for the rounding error of
\* dotProduct, against which the angle falls.
WithinHalfCone(zenithAngle, err, supplementary, coneAngle) ==
  IF IsNaN(zenithAngle) \/ IsNaN(coneAngle) THEN FALSE
  ELSE IF supplementary
  THEN IF Abs(2 * (180 * Deg - zenithAngle) - coneAngle) > 2 * err \/ err = 0
       THEN 2 * (180 * Deg - zenithAngle) <= coneAngle
       ELSE Rounding <= 0
  ELSE IF Abs(2 * zenithAngle - coneAngle) > 2 * err \/ err = 0
       THEN 2 * zenithAngle <= coneAngle
       ELSE Rounding >= 0

\* Cone tests that differ from isInCone in one place: the comparison is
\* reversed; the supplementary angle is taken for every station south of the
\* north pole.
isInConeReversed(stationLat, stationLon, satX, satY, satZ, coneAngle) ==
  [lat \in Int, lon \in Int, sat \in Seq(Int), cone \in Int |->
     [zenithAngle \in Int |->
        IF IsNaN(zenithAngle) \/ IsNaN(cone) THEN FALSE
        ELSE 2 * (IF lat < 0 THEN 180 * Deg - zenithAngle ELSE zenithAngle) >= cone
     ][ZenithAngle(DotProduct(lat, lon, sat[1], sat[2], sat[3]),
                   ExactDot(lat, lon, sat[1], sat[2], sat[3]))]
  ][stationLat, stationLon, << satX, satY, satZ >>, coneAngle]
isInConeSouthOfPole(stationLat, stationLon, satX, satY, satZ, coneAngle) ==
  [lat \in Int, lon \in Int, sat \in Seq(Int), cone \in Int |->
     [dotProduct \in Int, exact \in BOOLEAN |->
        [zenithAngle \in Int, err \in Int |->
           WithinHalfCone(zenithAngle, err, lat < 90 * Deg, cone)
        ][ZenithAngle(dotProduct, exact), AngleError(dotProduct, exact)]
     ][DotProduct(lat, lon, sat[1], sat[2], sat[3]),
       ExactDot(lat, lon, sat[1], sat[2], sat[3])]
  ][stationLat, stationLon, << satX, satY, satZ >>, coneAngle]

\* isInCone: the satellite is within coneAngle / 2 of the station's zenith, or
\* of its nadir for a station of negative latitude.
isInCone(stationLat, stationLon, satX, satY, satZ, coneAngle) ==
  [lat \in Int, lon \in Int, sat \in Seq(Int), cone \in Int |->
     [dotProduct \in Int, exact \in BOOLEAN |->
        [zenithAngle \in Int, err \in Int |->
           WithinHalfCone(zenithAngle, err, lat < 0, cone)
        ][ZenithAngle(dotProduct, exact), AngleError(dotProduct, exact)]
     ][DotProduct(lat, lon, sat[1], sat[2], sat[3]),
       ExactDot(lat, lon, sat[1], sat[2], sat[3])]
  ][stationLat, stationLon, << satX, satY, satZ >>, coneAngle]

\* ------------------------------------------------------------------------
\* EarthVisualizer.svelte: constants and inputs
\* ------------------------------------------------------------------------

\* const TRANSITION_DURATION = 1000, in milliseconds.
TRANSITION_DURATION == 1000

\* The quiet period handed to debounce, in milliseconds.
DEBOUNCE_MS == 150

\* The ground stations, in the order of the array; color is left out.
Stations ==
  << [name |-> "Thermopylae, GR", lat |-> 38796500, lon |-> 22536400, cone |-> 170 * Deg],
     [name |-> "Nemea, GR", lat |-> 37810300, lon |-> 22710000, cone |-> 170 * Deg],
     [name |-> "Canberra, AUS", lat |-> -35308200, lon |-> 149124400, cone |-> 170 * Deg],
     [name |-> "Awarua, NZ", lat |-> -46500000, lon |-> 168300000, cone |-> 170 * Deg],
     [name |-> "West Virginia, USA", lat |-> 39538100, lon |-> -80000000, cone |-> 170 * Deg],
     [name |-> "Virginia, USA", lat |-> 37431600, lon |-> -76500000, cone |-> 170 * Deg] >>

\* let xBandStations = [...]: every flag starts false.
InitialStations ==
  [i \in 1..Len(Stations) |->
     [name |-> Stations[i].name, lat |-> Stations[i].lat, lon |-> Stations[i].lon,
      cone |-> Stations[i].cone, canSeeDscovr |-> FALSE, canSeeAce |-> FALSE]]

\* The text of an X, Y or Z element: a number, nothing, or no number.
Num(v) == [kind |-> "num", val |-> v]
EmptyText == [kind |-> "empty", val |-> 0]

\* parseFloat(x.textContent || '0').
ParseCoord(text) ==
  IF text.kind = "num" THEN text.val
  ELSE IF text.kind = "empty" THEN 0
  ELSE NaN

\* Documents the satellite service can answer with: the X, Y and Z elements in
\* document order (ACE's samples, then DSCOVR's), in units of 100 000 km;
\* isInCone normalises the vector, so only its direction counts.
DocL1 ==
  [X |-> <<Num(14), Num(14), Num(15), Num(15)>>,
   Y |-> <<Num(2), Num(3), Num(-2), Num(-2)>>,
   Z |-> <<Num(-1), Num(-1), Num(1), Num(2)>>]
\* An answer with no coordinates (an error document).
DocNoData == [X |-> <<>>, Y |-> <<>>, Z |-> <<>>]
\* An answer whose last sample has empty elements.
DocBlank ==
  [X |-> <<Num(15), EmptyText>>, Y |-> <<Num(-2), EmptyText>>,
   Z |-> <<Num(1), EmptyText>>]
SatDocs == {DocL1, DocNoData, DocBlank}

\* The record fetchLatestEPICData returns: the latest image of the day, with
\* the centroid the service reports.
EpicRecord == [centroid_coordinates |-> [lon |-> -50000000, lat |-> 4000000]]

\* Date.now() when the component is constructed: 2025-03-31T08:20:30Z.
LoadTime == 1743409230

\* Seconds after the construction at which the reset button is pressed.
ClockStep == 18000

\* What new Date() gives resetToCurrentTime.
ResetTimes == {LoadTime + ClockStep}

\* ONE_YEAR_AGO: the construction time with the year set back by one.
ONE_YEAR_AGO == setFullYear(LoadTime, getFullYear(LoadTime) - 1)

\* Positions the date slider is dragged to, in steps (days) above its minimum,
\* and positions of the hour slider.
SliderDays == {321}
SliderHours == {23}

\* Sizes the container is measured at: <<clientWidth, clientHeight>>.
Sizes == {<<0, 0>>, <<300, 300>>}

\* Milliseconds of one step of time: one animation frame of the model.
TickMs == 500

\* Transitions that may be pending at once: the reset button is pressed with
\* fewer than this many pending.
MaxTransitions == 1

\* Counts kept by the history are followed up to this value.
MaxCount == 2

\* The rotation calculateEarthOrientation gives the projection for an instant.
TargetRotation(date) == << -subsolarLon(date), -subsolarLat(date), 0 >>

\* A pass of the forEach that sets the flags by the cone test alone.
StationFlagsByConeOnly(station, proj, sat, coords) ==
  LET xCoords == [i \in 1..Len(sat.X) |-> ParseCoord(sat.X[i])]
      yCoords == [i \in 1..Len(sat.Y) |-> ParseCoord(sat.Y[i])]
      zCoords == [i \in 1..Len(sat.Z) |-> ParseCoord(sat.Z[i])]
      lastIndex == Len(xCoords)
      At(cs) == IF lastIndex \in 1..Len(cs) THEN cs[lastIndex] ELSE NaN
  IN  With(isInCone(station.lat, station.lon, At(xCoords), At(yCoords), At(zCoords),
                    station.cone),
           LAMBDA can : [station EXCEPT !.canSeeDscovr = can, !.canSeeAce = can])

\* A pass of the forEach that tests ACE with the first sample of the document
\* (ACE's samples come first) and DSCOVR with the last.
StationFlagsOwnSamples(station, proj, sat, coords) ==
  LET xCoords == [i \in 1..Len(sat.X) |-> ParseCoord(sat.X[i])]
      yCoords == [i \in 1..Len(sat.Y) |-> ParseCoord(sat.Y[i])]
      zCoords == [i \in 1..Len(sat.Z) |-> ParseCoord(sat.Z[i])]
      At(cs, k) == IF k \in 1..Len(cs) THEN cs[k] ELSE NaN
      visible == Len(coords) = 2 /\ isPointVisible(proj, coords, station.lon, station.lat)
      InCone(k) == isInCone(station.lat, station.lon, At(xCoords, k), At(yCoords, k),
                            At(zCoords, k), station.cone)
  IN  With(<< visible /\ InCone(Len(xCoords)), visible /\ InCone(1) >>,
           LAMBDA can : [station EXCEPT !.canSeeDscovr = can[1], !.canSeeAce = can[2]])

\* One pass of the forEach of updateStationVisibility over a station, coords
\* being what projection([station.lon, station.lat]) returned: a point, or
\* null.  An index past the end of an array gives undefined, a NaN in the
\* arithmetic; "coords &&" is true for a point and null for null, and
\* (null ?? false) is false.
StationFlagsAt(station, proj, sat, coords) ==
  LET xCoords == [i \in 1..Len(sat.X) |-> ParseCoord(sat.X[i])]
      yCoords == [i \in 1..Len(sat.Y) |-> ParseCoord(sat.Y[i])]
      zCoords == [i \in 1..Len(sat.Z) |-> ParseCoord(sat.Z[i])]
      lastIndex == Len(xCoords)
      At(cs) == IF lastIndex \in 1..Len(cs) THEN cs[lastIndex] ELSE NaN
      visible == Len(coords) = 2 /\ isPointVisible(proj, coords, station.lon, station.lat)
      inCone == isInCone(station.lat, station.lon, At(xCoords), At(yCoords),
                         At(zCoords), station.cone)
  IN  With(visible /\ inCone,
           LAMBDA can : [station EXCEPT !.canSeeDscovr = can, !.canSeeAce = can])

\* The pass over a station with the point the orthographic projection returns
\* for it.
StationFlags(station, proj, sat) ==
  StationFlagsAt(station, proj, sat, ProjectionPoint(proj, station.lon, station.lat))

\* A forEach that stops after the first station.
updateStationVisibilityFirstOnly(m) ==
  With(m, LAMBDA c :
    IF ~IsNull(c.epicData) /\ ~IsNull(c.satelliteData)
    THEN [c EXCEPT
            !.xBandStations =
               [i \in 1..Len(c.xBandStations) |->
                  IF i = 1
                  THEN StationFlags(c.xBandStations[i], c.projection, c.satelliteData)
                  ELSE c.xBandStations[i]],
            !.dirty = @ \cup {"xBandStations"}]
    ELSE c)

\* An updateStationVisibility that asks for the satellite document only.
updateStationVisibilityWithoutEpic(m) ==
  With(m, LAMBDA c :
    IF ~IsNull(c.satelliteData)
    THEN [c EXCEPT
            !.xBandStations =
               [i \in 1..Len(c.xBandStations) |->
                  StationFlags(c.xBandStations[i], c.projection, c.satelliteData)],
            !.dirty = @ \cup {"xBandStations"}]
    ELSE c)

\* updateStationVisibility(): with EPIC and satellite data present, the flags of
\* every station are set from the projection and the last coordinates of the
\* document, and the array is reassigned.  m is the component's state while a
\* handler runs.
updateStationVisibility(m) ==
  With(m, LAMBDA c :
    IF ~IsNull(c.epicData) /\ ~IsNull(c.satelliteData)
    THEN [c EXCEPT
            !.xBandStations =
               [i \in 1..Len(c.xBandStations) |->
                  StationFlags(c.xBandStations[i], c.projection, c.satelliteData)],
            !.dirty = @ \cup {"xBandStations"}]
    ELSE c)

\* selection.transition() on the svg element: the new transition supersedes
\* the ones scheduled on the same element (d3 interrupts or cancels them in the
\* frame in which the new one starts, before its first tick).  An empty
\* selection schedules nothing.
ScheduleTransition(trs, node, from, to) ==
  IF node = 0 THEN trs
  ELSE SelectSeq(trs, LAMBDA t : t.node # node)
         \o << [node |-> node, from |-> from, to |-> to, elapsed |-> 0] >>

\* calculateEarthOrientation(date, animate).
calculateEarthOrientation(m, date, animate) ==
  With(<< m, subsolarLon(date), subsolarLat(date) >>, LAMBDA a :
    LET c == a[1]
        lon == a[2]
        lat == a[3]
        c1 == [c EXCEPT !.isRotating = animate, !.dirty = @ \cup {"isRotating"}]
    IN  With(IF animate
             THEN [c1 EXCEPT !.transitions =
                     ScheduleTransition(@, c.svg,
                                        << c.projection.rotate[1], c.projection.rotate[2] >>,
                                        << -lon, -lat >>)]
             ELSE updateStationVisibility(
                    [c1 EXCEPT !.projection = Rotate(@, << -lon, -lat, 0 >>),
                               !.dirty = @ \cup {"pathGenerator"}]),
             LAMBDA c2 :
               IF ~IsNull(c2.epicData)
               THEN [c2 EXCEPT !.epicData.centroid_coordinates =
                                  [lon |-> lon, lat |-> lat],
                               !.dirty = @ \cup {"epicData"}]
               ELSE c2))

\* A reactive statement that rebuilds the projection and does not rotate it.
ReactiveProjectionRebuildOnly(m, sz, date) ==
  With(m, LAMBDA c :
    IF {"width", "height", "selectedDate"} \cap c.dirty # {} /\ sz[1] > 0 /\ sz[2] > 0
    THEN [c EXCEPT !.projection = geoOrthographic(sz[1], sz[2])]
    ELSE c)

\* $: if (width && height && width > 0 && height > 0) { ... }: the projection is
\* rebuilt for the size and rotated for selectedDate.  The statement reads
\* width, height and selectedDate and runs again when one of them was assigned.
ReactiveProjection(m, sz, date) ==
  With(m, LAMBDA c :
    IF {"width", "height", "selectedDate"} \cap c.dirty # {} /\ sz[1] > 0 /\ sz[2] > 0
    THEN calculateEarthOrientation(
           [c EXCEPT !.projection = geoOrthographic(sz[1], sz[2])], date, FALSE)
    ELSE c)

\* $: if (selectedDate && epicData) { updateStationVisibility(); ... }: runs
\* again when selectedDate, epicData or xBandStations was assigned.
ReactiveVisibility(m) ==
  With(m, LAMBDA c :
    IF {"selectedDate", "epicData", "xBandStations"} \cap c.dirty # {}
       /\ ~IsNull(c.epicData)
    THEN updateStationVisibility(c)
    ELSE c)

\* The update Svelte runs after a handler, before anything else can run: the
\* reactive statements whose variables were assigned, in source order.
Flush(m, sz, date) == ReactiveVisibility(ReactiveProjection(m, sz, date))

\* {#if loading} ... {:else if error} ... {:else if width > 0 && height > 0} <svg>.
SvgRendered(ld, err, sz) == ~ld /\ IsNull(err) /\ sz[1] > 0 /\ sz[2] > 0

\* The svg element after a render: kept while its branch stays, a new element
\* when the branch is entered; the new element takes the least identity no
\* pending transition holds.
SvgAfter(ld, err, sz, trs) ==
  IF ~SvgRendered(ld, err, sz) THEN 0
  ELSE IF svg # 0 THEN svg
  ELSE CHOOSE n \in 1..(Len(trs) + 1) :
         /\ \A i \in 1..Len(trs) : trs[i].node # n
         /\ \A k \in 1..(n - 1) : \E i \in 1..Len(trs) : trs[i].node = k

\* The component's state as a handler sees it, nothing assigned yet.
Cur ==
  [xBandStations |-> xBandStations, epicData |-> epicData,
   satelliteData |-> satelliteData, projection |-> projection,
   isRotating |-> isRotating, transitions |-> transitions, svg |-> svg,
   dirty |-> {}]

\* ------------------------------------------------------------------------
\* EarthVisualizer.svelte: operations
\* ------------------------------------------------------------------------

Min(a, b) == IF a < b THEN a ELSE b

\* What a handler leaves of the state it worked on, and the render after it.
Commit(m, ld, err, sz) ==
  /\ xBandStations' = m.xBandStations
  /\ epicData' = m.epicData
  /\ satelliteData' = m.satelliteData
  /\ projection' = m.projection
  /\ isRotating' = m.isRotating
  /\ transitions' = m.transitions
  /\ loading' = ld
  /\ error' = err
  /\ size' = sz
  /\ svg' = SvgAfter(ld, err, sz, m.transitions)

\* The history after an orientation was asked for: last tells whether with
\* animation, idle counts the milliseconds since.
Requested(h, animate) ==
  [h EXCEPT !.last = IF animate THEN "animated" ELSE "plain", !.idle = 0]

\* The history after a slider event.  A burst is a run of slider events each
\* less than the quiet period after the one before; events counts those of the
\* running burst, calcs the orientation computations made for them.
SliderEvent(h, made) ==
  [h EXCEPT !.events = Min(@ + 1, MaxCount), !.calcs = Min(@ + made, MaxCount)]

\* The history after ms more milliseconds without input: the counts of the
\* burst start again when the quiet period has passed.
Idle(h, ms) ==
  LET t == Min(h.idle + ms, TRANSITION_DURATION)
  IN  [h EXCEPT !.idle = t,
                !.events = IF t >= DEBOUNCE_MS THEN 0 ELSE @,
                !.calcs = IF t >= DEBOUNCE_MS THEN 0 ELSE @]

\* onMount: updateVisualization(true) runs up to its first await, the fetch of
\* the list of EPIC dates.
Mount ==
  /\ uv.pc = "unmounted"
  /\ uv' = [uv EXCEPT !.pc = "epicDates"]
  /\ Commit(Cur, TRUE, Null, size)
  /\ UNCHANGED << worldData, selectedDate, hist, p1, p0, fn >>

\* After fetchLatestEPICData returned: epicData is assigned; the world atlas is
\* fetched when worldData is not there, else the satellite positions are.
AfterEpic(result, err, failed) ==
  /\ uv' = [uv EXCEPT !.pc = IF IsNull(worldData) THEN "world" ELSE "sat",
                      !.failed = @ \/ failed]
  /\ \E m \in {Flush([Cur EXCEPT !.epicData = result, !.dirty = {"epicData"}],
                      size, selectedDate)} :
       Commit(m, loading, err, size)
  /\ hist' = [hist EXCEPT !.stale = IF IsNull(worldData) THEN @ ELSE FALSE]
  /\ UNCHANGED << worldData, selectedDate, p1, p0, fn >>

\* The answer to the fetch of the EPIC dates: a list, an empty list (the code
\* throws 'No EPIC data available'), or a failure; the catch sets error and
\* the function returns null.
EpicDatesResponse(outcome) ==
  /\ uv.pc = "epicDates"
  /\ IF outcome = "ok"
     THEN /\ uv' = [uv EXCEPT !.pc = "epicDay"]
          /\ UNCHANGED << xBandStations, epicData, satelliteData, worldData,
                          selectedDate, loading, error, size, projection, isRotating,
                          svg, transitions, hist, p1, p0, fn >>
     ELSE AfterEpic(Null,
                    IF outcome = "empty" THEN "No EPIC data available"
                    ELSE "Failed to fetch",
                    TRUE)

\* The answer to the fetch of the latest day: its last record, undefined for a
\* day without records, or a failure.
EpicDayResponse(outcome) ==
  /\ uv.pc = "epicDay"
  /\ IF outcome = "ok" THEN AfterEpic(EpicRecord, error, FALSE)
     ELSE IF outcome = "none" THEN AfterEpic(Null, error, FALSE)
     ELSE AfterEpic(Null, "Failed to fetch", TRUE)

\* The answer to the fetch of the world atlas.  A failure is caught nowhere:
\* the finally clears loading and the exception leaves updateVisualization.
WorldResponse(ok) ==
  /\ uv.pc = "world"
  /\ IF ok
     THEN /\ worldData' = "countries"
          /\ uv' = [uv EXCEPT !.pc = "sat"]
          /\ hist' = [hist EXCEPT !.stale = FALSE]
          /\ Commit(Cur, loading, error, size)
     ELSE /\ worldData' = worldData
          /\ uv' = [uv EXCEPT !.pc = "done", !.escaped = TRUE, !.failed = TRUE]
          /\ hist' = hist
          /\ Commit(Cur, FALSE, error, size)
  /\ UNCHANGED << selectedDate, p1, p0, fn >>

\* The answer to the fetch of the satellite positions: a document, which
\* becomes satelliteData, or a failure, which sets error.  Then
\* calculateEarthOrientation(selectedDate, !initialLoad) and the finally.
SatResponse(doc) ==
  /\ uv.pc = "sat"
  /\ \E m2 \in
       {Flush(calculateEarthOrientation(
                IF IsNull(doc) THEN Cur
                ELSE [Cur EXCEPT !.satelliteData = doc, !.dirty = {"satelliteData"}],
                selectedDate, ~uv.initialLoad),
              size, selectedDate)} :
       Commit(m2, FALSE,
              IF IsNull(doc) THEN "Failed to fetch satellite positions" ELSE error,
              size)
  /\ hist' = Requested(hist, ~uv.initialLoad)
  /\ uv' = [uv EXCEPT !.pc = "done", !.failed = @ \/ IsNull(doc)]
  /\ UNCHANGED << worldData, selectedDate, p1, p0, fn >>

\* resetToCurrentTime: selectedDate = new Date(), then the animated update.
resetToCurrentTime(t) ==
  /\ uv.pc # "unmounted"
  /\ Len(transitions) < MaxTransitions
  /\ \E m2 \in
       {Flush(calculateEarthOrientation([Cur EXCEPT !.dirty = {"selectedDate"}], t, TRUE),
              size, t)} :
         Commit(m2, loading, error, size)
  /\ selectedDate' = t
  /\ hist' = [Requested(hist, TRUE) EXCEPT !.stale = TRUE]
  /\ UNCHANGED << worldData, uv, p1, p0, fn >>

\* handleDateChange: the year, the month and the day of the slider's value are
\* set on selectedDate one after the other, then the update without animation.
\* The handler assigns selectedDate, so that the reactive statement on the size
\* runs after it and, at a positive size, computes the orientation once more.
handleDateChange(value) ==
  /\ uv.pc # "unmounted"
  /\ \E date \in {setDate(setMonth(setFullYear(selectedDate, getFullYear(value)),
                                     getMonth(value)),
                            getDate(value))} :
     \E m2 \in
       {Flush(calculateEarthOrientation([Cur EXCEPT !.dirty = {"selectedDate"}], date, FALSE),
              size, date)} :
         /\ selectedDate' = date
         /\ Commit(m2, loading, error, size)
  /\ hist' = [SliderEvent(Requested(hist, FALSE),
                          IF size[1] > 0 /\ size[2] > 0 THEN 2 ELSE 1)
               EXCEPT !.stale = TRUE]
  /\ UNCHANGED << worldData, uv, p1, p0, fn >>

\* handleTimeChange: the hour of the slider, minutes and seconds zero; the
\* reactive statement runs after it as after handleDateChange.
handleTimeChange(hours) ==
  /\ uv.pc # "unmounted"
  /\ \E date \in {setSeconds(setMinutes(setHours(selectedDate, hours), 0), 0)} :
     \E m2 \in
       {Flush(calculateEarthOrientation([Cur EXCEPT !.dirty = {"selectedDate"}], date, FALSE),
              size, date)} :
         /\ selectedDate' = date
         /\ Commit(m2, loading, error, size)
  /\ hist' = [SliderEvent(Requested(hist, FALSE),
                          IF size[1] > 0 /\ size[2] > 0 THEN 2 ELSE 1)
               EXCEPT !.stale = TRUE]
  /\ UNCHANGED << worldData, uv, p1, p0, fn >>

\* bind:clientWidth / bind:clientHeight: the container was measured at a new
\* size; the reactive statement on width and height runs.
Resize(sz) ==
  /\ uv.pc # "unmounted"
  /\ sz # size
  /\ \E m1 \in
       {Flush([Cur EXCEPT !.dirty = (IF sz[1] # size[1] THEN {"width"} ELSE {})
                                     \cup (IF sz[2] # size[2] THEN {"height"} ELSE {})],
              sz, selectedDate)} :
         Commit(m1, loading, error, sz)
  /\ hist' = IF sz[1] > 0 /\ sz[2] > 0 THEN Requested(hist, FALSE) ELSE hist
  /\ UNCHANGED << worldData, selectedDate, uv, p1, p0, fn >>

\* The scale of the eased time t of a tween: 1.0.
EaseScale == 1000

\* d3.easeCubicInOut, the default easing of a transition.
easeCubicInOut(t) ==
  LET u == 2 * t
      Cube(x) == TDiv(TDiv(x * x, EaseScale) * x, EaseScale)
  IN  IF u <= EaseScale THEN TDiv(Cube(u), 2)
      ELSE TDiv(Cube(u - 2 * EaseScale) + 2 * EaseScale, 2)

\* d3.interpolate(a, b)(t) for two numbers: a * (1 - t) + b * t, the products
\* in 32-bit steps.
interpolate(a, b, t) ==
  TDiv(a, EaseScale) * (EaseScale - t) + TDiv(b, EaseScale) * t
    + TDiv(JsRem(a, EaseScale) * (EaseScale - t) + JsRem(b, EaseScale) * t, EaseScale)

\* The t a transition hands to its tweens when elapsed milliseconds have passed.
TweenTime(elapsed) ==
  IF elapsed < TRANSITION_DURATION
  THEN easeCubicInOut(TDiv(elapsed * EaseScale, TRANSITION_DURATION))
  ELSE EaseScale

\* The function the 'rotate' tween returns, called with t.
tween(m, tr, t) ==
  updateStationVisibility(
    [m EXCEPT !.projection = Rotate(@, << interpolate(tr.from[1], tr.to[1], t),
                                          interpolate(tr.from[2], tr.to[2], t), 0 >>),
              !.dirty = @ \cup {"pathGenerator"}])

RECURSIVE RunTweens(_, _, _)
\* One frame of d3's timer: every pending transition ticks, oldest first.
RunTweens(m, trs, i) ==
  IF i > Len(trs) THEN m
  ELSE With(tween(m, trs[i], TweenTime(Min(trs[i].elapsed + TickMs, TRANSITION_DURATION))),
            LAMBDA c : RunTweens(c, trs, i + 1))

\* Time passes by TickMs: the transitions tick, those whose duration has
\* elapsed end with t = 1, and the history's time since the last input grows.
Tick ==
  /\ uv.pc # "unmounted"
  /\ \E m3 \in
       {LET aged == [i \in 1..Len(transitions) |->
                       [transitions[i] EXCEPT
                          !.elapsed = Min(@ + TickMs, TRANSITION_DURATION)]]
        IN  Flush([RunTweens(Cur, transitions, 1) EXCEPT
                      !.transitions =
                         SelectSeq(aged, LAMBDA t : t.elapsed < TRANSITION_DURATION)],
                  size, selectedDate)} :
         Commit(m3, loading, error, size)
  /\ hist' = Idle(hist, TickMs)
  /\ UNCHANGED << worldData, selectedDate, uv, p1, p0, fn >>

\* ------------------------------------------------------------------------
\* src/unnamed/part_000: inputs and state
\* ------------------------------------------------------------------------

\* date.toISOString().split('T')[0]: the UTC calendar day 'YYYY-MM-DD', as
\* <<year, month, day>>.
ISODay(t) ==
  LET c == CivilFromDays(t \div SecondsPerDay) IN << c.y, c.m + 1, c.d >>

\* twoDaysAgo: the construction time with the day of the month set back by two.
twoDaysAgo == setDate(LoadTime, getDate(LoadTime) - 2)

\* Days picked in the date input.
PickedDays == {<<2025, 3, 27>>, <<2025, 3, 28>>, <<2025, 3, 29>>}

\* One record of the EPIC service: date is 'YYYY-MM-DD HH:MM:SS', as
\* <<day, time>>; the centroid is in microdegrees.
EpicImage(day, time, lon, lat) ==
  [date |-> << day, time >>, image |-> << "epic_RGB", day, time >>,
   centroid_coordinates |-> [lat |-> lat, lon |-> lon]]

\* What https://epic.gsfc.nasa.gov/api/enhanced/date/<day> answers with: the
\* images of the day, oldest first; none for a day without images.  The times
\* of the images differ from day to day.
EpicService(day) ==
  IF day = <<2025, 3, 29>>
  THEN << EpicImage(day, "00:31:45", 170500000, 2900000),
          EpicImage(day, "12:10:02", -3300000, 3000000) >>
  ELSE IF day = <<2025, 3, 28>>
  THEN << EpicImage(day, "00:31:45", 171000000, 2500000),
          EpicImage(day, "12:10:02", -2800000, 2600000) >>
  ELSE IF day = <<2025, 3, 27>>
  THEN << EpicImage(day, "00:31:45", 171400000, 2100000),
          EpicImage(day, "13:58:20", -29700000, 2200000) >>
  ELSE << >>

\* What fetchSatelliteData returns for the answer of the satellite service to
\* a request around the start of a day: one entry per spacecraft, with the last
\* Y and Z in units of 1000 km.
SatService(day) ==
  << [name |-> "ace", gseY |-> 210, gseZ |-> -90, time |-> day],
     [name |-> "dscovr", gseY |-> -180, gseZ |-> 150, time |-> day] >>

\* Calls of fetchData that may be in flight at once.
MaxCallsP0 == 2

\* part_000 after construction: no image, no time selected, the day two days
\* before the construction selected, the projection of an 800 x 800 globe not
\* rotated.  calls holds, for every fetchData call in flight, the await it is
\* suspended at and what it carries, oldest first; overlap and failed are the
\* history of the calls since the component was last at rest (for the
\* properties): a change came while a call started by a change was in flight,
\* and a fetch of EPIC data failed.
InitP0 ==
  [mounted |-> FALSE, earthImage |-> << >>, satelliteData |-> << >>,
   subsolarPoint |-> [lat |-> 0, lon |-> 0],
   projection |-> geoOrthographic(800, 800),
   selectedDate |-> ISODay(twoDaysAgo), availableTimes |-> << >>, selectedTime |-> "",
   calls |-> << >>, event |-> "none", overlap |-> FALSE, failed |-> FALSE]

\* part_001 after construction: the projection of an 800 x 800 globe, not
\* rotated; calls holds, for every updateVisualization call in flight, the
\* await it is suspended at, oldest first; event names the last step and
\* escaped tells whether an exception has left a call (for the properties).
InitP1 ==
  [mounted |-> FALSE, epicData |-> Null, worldData |-> Null, selectedDate |-> LoadTime,
   loading |-> FALSE, error |-> Null, projection |-> geoOrthographic(800, 800),
   calls |-> << >>, event |-> "none", escaped |-> FALSE]

\* fn while no function has been applied on its own.
NoCall == [op |-> "none", args |-> << >>, out |-> FALSE, rounding |-> 0]

\* The state after construction: the script has run, the reactive statements
\* have run once (the projection is rotated for selectedDate) and the first
\* render has put the svg element into the document; onMount has not run.
InitComponents ==
  /\ xBandStations = InitialStations
  /\ epicData = Null
  /\ satelliteData = Null
  /\ worldData = Null
  /\ selectedDate = LoadTime
  /\ loading = FALSE
  /\ error = Null
  /\ size = <<300, 300>>
  /\ projection = Rotate(geoOrthographic(300, 300), TargetRotation(LoadTime))
  /\ isRotating = FALSE
  /\ svg = 1
  /\ transitions = << >>
  /\ uv = [pc |-> "unmounted", initialLoad |-> TRUE, escaped |-> FALSE, failed |-> FALSE]
  /\ hist = [last |-> "none", idle |-> 0, events |-> 0, calcs |-> 0, stale |-> FALSE]
  /\ p1 = InitP1
  /\ p0 = InitP0

\* No function is applied on its own in the runs of the components.
Init == InitComponents /\ fn = NoCall

Next ==
  \/ Mount
  \/ \E outcome \in {"ok", "empty", "fail"} : EpicDatesResponse(outcome)
  \/ \E outcome \in {"ok", "none", "fail"} : EpicDayResponse(outcome)
  \/ \E ok \in BOOLEAN : WorldResponse(ok)
  \/ \E doc \in SatDocs \cup {Null} : SatResponse(doc)
  \/ \E t \in ResetTimes : resetToCurrentTime(t)
  \/ \E k \in SliderDays : handleDateChange(ONE_YEAR_AGO + k * SecondsPerDay)
  \/ \E h \in SliderHours : handleTimeChange(h)
  \/ \E sz \in Sizes : Resize(sz)
  \/ Tick

Spec == Init /\ [][Next]_vars

\* ------------------------------------------------------------------------
\* src/unnamed/part_001
\* ------------------------------------------------------------------------

\* Calls of updateVisualization that may be in flight at once.
MaxCalls == 2

\* Values picked in the datetime-local input: 2025-03-30T10:00 local time.
PickedDates == {setSeconds(setMinutes(setHours(setDate(LoadTime, 30), 10), 0), 0)}

\* calculateEarthOrientation(date) of part_001: the projection is rotated and
\* the centroid of the EPIC record, when there is one, is overwritten.
calculateEarthOrientationP1(c, date) ==
  With(<< subsolarLon(date), subsolarLat(date) >>, LAMBDA a :
    LET c1 == [c EXCEPT !.projection = Rotate(@, << -a[1], -a[2], 0 >>)]
    IN  IF ~IsNull(c1.epicData)
        THEN [c1 EXCEPT !.epicData.centroid_coordinates = [lon |-> a[1], lat |-> a[2]]]
        ELSE c1)

\* The sequence s without its element i.
Without(s, i) == [k \in 1..(Len(s) - 1) |-> IF k < i THEN s[k] ELSE s[k + 1]]

\* updateVisualization() up to its first await: loading = true, error = null.
StartCallP1(c) ==
  [c EXCEPT !.loading = TRUE, !.error = Null, !.calls = Append(@, "epicDates")]

\* updateVisualization of call i after fetchLatestEPICData returned result:
\* epicData = result, calculateEarthOrientation(selectedDate), then the fetch
\* of the world atlas if worldData is missing, else the finally.
AfterEpicP1(c, i, result) ==
  LET c1 == calculateEarthOrientationP1([c EXCEPT !.epicData = result], c.selectedDate)
  IN  IF IsNull(c1.worldData)
      THEN [c1 EXCEPT !.calls[i] = "world"]
      ELSE [c1 EXCEPT !.calls = Without(@, i), !.loading = FALSE]

\* The variables of EarthVisualizer.svelte, which part_001 does not touch.
varsMain == << xBandStations, epicData, satelliteData, worldData, selectedDate, loading,
               error, size, projection, isRotating, svg, transitions, uv, hist >>

\* onMount(updateVisualization).
MountP1 ==
  /\ ~p1.mounted
  /\ p1' = [StartCallP1(p1) EXCEPT !.mounted = TRUE, !.event = "mount"]
  /\ UNCHANGED << varsMain, p0, fn >>

\* on:change of the datetime-local input.
ChangeP1(value) ==
  /\ p1.mounted
  /\ Len(p1.calls) < MaxCalls
  /\ p1' = [StartCallP1([p1 EXCEPT !.selectedDate = value]) EXCEPT !.event = "change"]
  /\ UNCHANGED << varsMain, p0, fn >>

\* The answer to call i's fetch of the EPIC dates.
EpicDatesResponseP1(i, outcome) ==
  /\ p1.calls[i] = "epicDates"
  /\ p1' = IF outcome = "ok"
           THEN [p1 EXCEPT !.calls[i] = "epicDay", !.event = "epicDates"]
           ELSE [AfterEpicP1([p1 EXCEPT !.error = IF outcome = "empty"
                                                 THEN "No EPIC data available"
                                                 ELSE "Failed to fetch"],
                             i, Null)
                   EXCEPT !.event = "epicFailed"]
  /\ UNCHANGED << varsMain, p0, fn >>

\* The answer to call i's fetch of the latest day.
EpicDayResponseP1(i, outcome) ==
  /\ p1.calls[i] = "epicDay"
  /\ p1' = IF outcome = "ok"
           THEN [AfterEpicP1(p1, i, EpicRecord) EXCEPT !.event = "epic"]
           ELSE IF outcome = "none"
           THEN [AfterEpicP1(p1, i, Null) EXCEPT !.event = "epic"]
           ELSE [AfterEpicP1([p1 EXCEPT !.error = "Failed to fetch"], i, Null)
                   EXCEPT !.event = "epicFailed"]
  /\ UNCHANGED << varsMain, p0, fn >>

\* The answer to call i's fetch of the world atlas; a failure leaves the call
\* as an exception, after the finally.
WorldResponseP1(i, ok) ==
  /\ p1.calls[i] = "world"
  /\ p1' = [p1 EXCEPT !.worldData = IF ok THEN "countries" ELSE @,
                      !.calls = Without(@, i),
                      !.loading = FALSE,
                      !.escaped = @ \/ ~ok,
                      !.event = IF ok THEN "world" ELSE "worldFailed"]
  /\ UNCHANGED << varsMain, p0, fn >>

NextP1 ==
  \/ MountP1
  \/ \E value \in PickedDates \cup {LoadTime} : ChangeP1(value)
  \/ \E i \in 1..Len(p1.calls), outcome \in {"ok", "empty", "fail"} :
       EpicDatesResponseP1(i, outcome)
  \/ \E i \in 1..Len(p1.calls), outcome \in {"ok", "none", "fail"} :
       EpicDayResponseP1(i, outcome)
  \/ \E i \in 1..Len(p1.calls), ok \in BOOLEAN : WorldResponseP1(i, ok)

SpecP1 == Init /\ [][NextP1]_vars

\* ------------------------------------------------------------------------
\* src/unnamed/part_000
\* ------------------------------------------------------------------------

\* updateProjection(epicData): a new projection, slightly smaller and lower,
\* rotated by [lon, -lat, 0] of the centroid.
updateProjection(c, epic) ==
  [c EXCEPT !.projection =
     Rotate([rotate |-> <<0, 0, 0>>, scale |-> (800 * 100) \div 255,
             translate |-> << 800 \div 2, (800 * 100) \div 194 >>],
            << epic.centroid_coordinates.lon, -epic.centroid_coordinates.lat, 0 >>)]

\* isPointVisible(lon, lat) of part_000: the longitude alone decides.
isPointVisibleP0(lon, lat) == lon > 90 * Deg \/ lon < -90 * Deg

\* fetchData() up to its first await, the fetch in fetchEPICData: the request
\* carries the day selected now.  byChange tells a call of handleDateTimeChange
\* from the call of onMount.
StartCallP0(c, byChange) ==
  [c EXCEPT !.calls = Append(@, [pc |-> "epic", day |-> c.selectedDate,
                                 data |-> Null, byChange |-> byChange]),
            !.overlap = IF byChange
                        THEN (@ /\ c.calls # << >>)
                               \/ (\E i \in 1..Len(c.calls) : c.calls[i].byChange)
                        ELSE @,
            !.failed = @ /\ c.calls # << >>]

\* onMount.
MountP0 ==
  /\ ~p0.mounted
  /\ p0' = [StartCallP0(p0, FALSE) EXCEPT !.mounted = TRUE, !.event = "mount"]
  /\ UNCHANGED << varsMain, p1, fn >>

\* The date input: bind:value sets selectedDate, then on:change calls
\* handleDateTimeChange.
ChangeDateP0(day) ==
  /\ p0.mounted
  /\ Len(p0.calls) < MaxCallsP0
  /\ day # p0.selectedDate
  /\ p0' = [StartCallP0([p0 EXCEPT !.selectedDate = day], TRUE) EXCEPT !.event = "date"]
  /\ UNCHANGED << varsMain, p1, fn >>

\* The time select, enabled when there are available times: bind:value sets
\* selectedTime to the chosen option, then on:change calls handleDateTimeChange.
ChangeTimeP0(k) ==
  /\ p0.mounted
  /\ Len(p0.calls) < MaxCallsP0
  /\ k \in 1..Len(p0.availableTimes)
  /\ p0.availableTimes[k] # p0.selectedTime
  /\ p0' = [StartCallP0([p0 EXCEPT !.selectedTime = p0.availableTimes[k]], TRUE)
              EXCEPT !.event = "time"]
  /\ UNCHANGED << varsMain, p1, fn >>

\* The answer to call i's fetch of the EPIC records of its day, and the rest of
\* fetchEPICData.  An HTTP error, a failure or an empty list throws; the catch
\* returns null and fetchData returns null.  Else availableTimes is replaced,
\* a missing selectedTime becomes the last time, and the record of
\* selectedTime, if there is one, gives subsolarPoint and earthImage; fetchData
\* goes on to fetchSatelliteData, whose request carries the day selected now.
EpicResponseP0(i, outcome) ==
  /\ i \in 1..Len(p0.calls)
  /\ p0.calls[i].pc = "epic"
  /\ LET records == IF outcome = "ok" THEN EpicService(p0.calls[i].day) ELSE << >>
         gone == [p0 EXCEPT !.calls = Without(@, i), !.failed = TRUE,
                            !.event = "epicFailed"]
     IN  IF records = << >>
         THEN p0' = gone
         ELSE LET times == [k \in 1..Len(records) |-> records[k].date[2]]
                  time == IF p0.selectedTime = "" THEN times[Len(times)]
                          ELSE p0.selectedTime
                  found == {k \in 1..Len(records) : records[k].date[2] = time}
              IN  IF found = {}
                  THEN p0' = [gone EXCEPT !.availableTimes = times,
                                          !.selectedTime = time]
                  ELSE LET selectedData == records[CHOOSE k \in found :
                                                     \A j \in found : k <= j]
                       IN  p0' = [p0 EXCEPT
                                    !.availableTimes = times,
                                    !.selectedTime = time,
                                    !.subsolarPoint =
                                       [lat |-> selectedData.centroid_coordinates.lat,
                                        lon |-> selectedData.centroid_coordinates.lon],
                                    !.earthImage = << selectedData.date[1],
                                                      selectedData.image >>,
                                    !.calls[i] = [pc |-> "sat", day |-> p0.selectedDate,
                                                  data |-> selectedData,
                                                  byChange |-> @.byChange],
                                    !.event = "epic"]
  /\ UNCHANGED << varsMain, p1, fn >>

\* The answer to call i's fetch of the satellite positions (a failure gives
\* []), the return of fetchData and the rest of the handler: updateProjection.
SatResponseP0(i, ok) ==
  /\ i \in 1..Len(p0.calls)
  /\ p0.calls[i].pc = "sat"
  /\ p0' = [updateProjection(p0, p0.calls[i].data) EXCEPT
              !.satelliteData = IF ok THEN SatService(p0.calls[i].day) ELSE << >>,
              !.calls = Without(@, i),
              !.event = "sat"]
  /\ UNCHANGED << varsMain, p1, fn >>

NextP0 ==
  \/ MountP0
  \/ \E day \in PickedDays : ChangeDateP0(day)
  \/ \E k \in 1..2 : ChangeTimeP0(k)
  \/ \E i \in 1..MaxCallsP0, outcome \in {"ok", "empty", "fail"} : EpicResponseP0(i, outcome)
  \/ \E i \in 1..MaxCallsP0, ok \in BOOLEAN : SatResponseP0(i, ok)

SpecP0 == Init /\ [][NextP0]_vars

\* ------------------------------------------------------------------------
\* The functions applied on their own
\* ------------------------------------------------------------------------

\* The arguments of a visibility test, in microdegrees: the rotation of the
\* projection and the point.  The angles are the quadrant angles, angles
\* between them, and coordinates of stations and of subsolar points.
PointArgs ==
  {[kind |-> "point", rot |-> << l, ph, 0 >>, lon |-> lon, lat |-> lat] :
     l \in {-270 * Deg, -90 * Deg, 0, 49117260, 90 * Deg, 180 * Deg},
     ph \in {-23440000, 0, 4306408, 45 * Deg, 90 * Deg},
     lon \in {-180 * Deg, -135 * Deg, -90 * Deg, -45 * Deg, 0, 45 * Deg, 90 * Deg,
              135 * Deg, 180 * Deg, 22536400, 149124400},
     lat \in {-90 * Deg, -45 * Deg, 0, 45 * Deg, 90 * Deg, 38796500}}

\* isPointVisible(coords, lon, lat) with the projection rotated by rot.
ApplyIsPointVisible ==
  /\ fn.op = "args" /\ fn.args.kind = "point"
  /\ \E proj \in {Rotate(geoOrthographic(300, 300), fn.args.rot)} :
       fn' = [fn EXCEPT !.op = "isPointVisible",
                        !.out = isPointVisible(proj, ProjectionPoint(proj, fn.args.lon,
                                                                     fn.args.lat),
                                               fn.args.lon, fn.args.lat)]
  /\ UNCHANGED << varsMain, p1, p0 >>

\* The orientation code of a variant of the component applied to a point as
\* it is applied to the subsolar point (EarthVisualizer.svelte and part_001:
\* projection.rotate([-lon, -lat, 0]); part_000: updateProjection), then the
\* variant's visibility test on the point and on its antipode.
ApplyOrientation(variant) ==
  /\ fn.op = "args" /\ fn.args.kind = "point"
  /\ LET lon == fn.args.lon
         lat == fn.args.lat
         antiLon == IF lon > 0 THEN lon - 180 * Deg ELSE lon + 180 * Deg
     IN  \E proj \in {IF variant = "part_000"
                      THEN updateProjection(p0, EpicImage(<<2025, 3, 29>>, "00:31:45",
                                                          lon, lat)).projection
                      ELSE Rotate(geoOrthographic(300, 300), << -lon, -lat, 0 >>)} :
           fn' = [fn EXCEPT
                    !.op = "orientation",
                    !.out = [variant |-> variant,
                             rotate |-> proj.rotate,
                             point |-> IF variant = "part_000"
                                       THEN isPointVisibleP0(lon, lat)
                                       ELSE isPointVisible(proj,
                                              ProjectionPoint(proj, lon, lat), lon, lat),
                             antipode |-> IF variant = "part_000"
                                          THEN isPointVisibleP0(antiLon, -lat)
                                          ELSE isPointVisible(proj,
                                                 ProjectionPoint(proj, antiLon, -lat),
                                                 antiLon, -lat)]]
  /\ UNCHANGED << varsMain, p1, p0 >>

\* The arguments of a cone test: a station (on the equator, north and south of
\* it, at the poles), a satellite vector (along the axes, between them, towards L1, the zero
\* vector, NaN) and two cone angles in microdegrees, the second not smaller.
ConeArgs ==
  {[kind |-> "cone", lat |-> st[1], lon |-> st[2], sat |-> sat,
    cone |-> c[1], widerCone |-> c[2]] :
     st \in {<<0, 0>>, <<0, 90 * Deg>>, <<45 * Deg, 0>>, <<-45 * Deg, 0>>,
             <<38796500, 22536400>>, <<-35308200, 149124400>>, <<90 * Deg, 0>>, <<-90 * Deg, 0>>},
     sat \in {<<1, 0, 0>>, <<-1, 0, 0>>, <<0, 1, 0>>, <<0, 0, 1>>, <<1, 0, 1>>,
              <<15, -2, 2>>, <<0, 0, 0>>, <<NaN, NaN, NaN>>, <<0, 0, -1>>,
              <<14707, 0, 0>>},
     c \in {cc \in {0, 90 * Deg, 170 * Deg, 180 * Deg, 270 * Deg, 359 * Deg, 360 * Deg}
                   \X {0, 90 * Deg, 170 * Deg, 180 * Deg, 270 * Deg, 359 * Deg,
                       360 * Deg} : cc[1] <= cc[2]}}

\* isInCone(stationLat, stationLon, satX, satY, satZ, coneAngle), for the cone
\* angle and for the wider one.
ApplyIsInCone ==
  /\ fn.op = "args" /\ fn.args.kind = "cone"
  /\ LET a == fn.args
     IN  fn' = [fn EXCEPT
                  !.op = "isInCone",
                  !.out = [inCone |-> isInCone(a.lat, a.lon, a.sat[1], a.sat[2],
                                               a.sat[3], a.cone),
                           inWiderCone |-> isInCone(a.lat, a.lon, a.sat[1], a.sat[2],
                                                    a.sat[3], a.widerCone)]]
  /\ UNCHANGED << varsMain, p1, p0 >>

\* The arguments of the subsolar point: two instants, in seconds since the
\* epoch, out of 2025-03-31 at 00:20:30Z, 08:20:30Z and 23:20:30Z, the
\* solstices 2025-06-21 and 2025-12-21 at 12:00Z, 2000-03-21 at 00:00Z,
\* 1990-06-21 and 1970-06-21 at 12:00Z, 1970-12-22 at 00:00Z and
\* 2012-03-20 at 05:04:23Z, where L0 + C is within a microdegree of 360.
TimeArgs ==
  {[kind |-> "time", dates |-> << t1, t2 >>] :
     t1, t2 \in {1743380430, LoadTime, 1743463230, 1750507200, 1766318400, 953596800,
                 645969600, 14817600, 30672000, 1332219863}}

\* The subsolar point calculateEarthOrientation computes for each instant.
ApplySubsolarPoint ==
  /\ fn.op = "args" /\ fn.args.kind = "time"
  /\ fn' = [fn EXCEPT
              !.op = "subsolar",
              !.out = [k \in 1..2 |-> [lon |-> subsolarLon(fn.args.dates[k]),
                                       lat |-> subsolarLat(fn.args.dates[k])]]]
  /\ UNCHANGED << varsMain, p1, p0 >>

\* The arguments of one pass of the forEach of updateStationVisibility: a
\* station, the rotation of the projection (over Greece, over the Pacific, of
\* the subsolar point at the construction time, none) and the document.
FlagsArgs ==
  {[kind |-> "flags", station |-> i, rot |-> rot, sat |-> sat] :
     i \in 1..Len(Stations),
     rot \in {<< -22536400, -38796500, 0 >>, << 160 * Deg, 20 * Deg, 0 >>,
              TargetRotation(LoadTime), << 0, 0, 0 >>},
     sat \in SatDocs}

\* The pass over the station when the projection returns a point for it, and
\* when it returns null.
ApplyStationFlags ==
  /\ fn.op = "args" /\ fn.args.kind = "flags"
  /\ \E proj \in {Rotate(geoOrthographic(300, 300), fn.args.rot)} :
       LET station == InitialStations[fn.args.station]
       IN  fn' = [fn EXCEPT
                    !.op = "stationFlags",
                    !.out = [returned |-> StationFlags(station, proj, fn.args.sat),
                             notReturned |-> StationFlagsAt(station, proj, fn.args.sat,
                                                            Null)]]
  /\ UNCHANGED << varsMain, p1, p0 >>

\* The arguments of handleDateChange: selectedDate before the event (the
\* construction time 2025-03-31 08:20:30, 2025-02-15 and 2024-12-31 at that
\* time of day) and the value of the date slider, in whole days above its
\* minimum ONE_YEAR_AGO (2024-03-31, 2024-04-30, 2025-02-15, 2025-03-01,
\* 2025-03-31).
SliderArgs ==
  {[kind |-> "slider", selected |-> sel, value |-> ONE_YEAR_AGO + k * SecondsPerDay] :
     sel \in {LoadTime, LoadTime - 44 * SecondsPerDay, LoadTime - 90 * SecondsPerDay},
     k \in {0, 30, 321, 335, 365}}

\* The date handleDateChange assigns to selectedDate: setFullYear, setMonth
\* and setDate of the slider's value, one after the other, on selectedDate.
ApplyHandleDateChange ==
  /\ fn.op = "args" /\ fn.args.kind = "slider"
  /\ fn' = [fn EXCEPT
              !.op = "handleDateChange",
              !.out = setDate(setMonth(setFullYear(fn.args.selected,
                                                   getFullYear(fn.args.value)),
                                       getMonth(fn.args.value)),
                              getDate(fn.args.value))]
  /\ UNCHANGED << varsMain, p1, p0 >>

\* The arguments the functions are applied to.
FnArgs == PointArgs \cup ConeArgs \cup TimeArgs \cup FlagsArgs
            \cup SliderArgs

\* The components as constructed, and arguments for a function.
InitFn ==
  /\ InitComponents
  /\ \E a \in FnArgs, r \in {-1, 0, 1} :
       fn = [op |-> "args", args |-> a, out |-> FALSE, rounding |-> r]

NextFn ==
  \/ ApplyIsPointVisible
  \/ \E variant \in {"EarthVisualizer", "part_000"} : ApplyOrientation(variant)
  \/ ApplyIsInCone
  \/ ApplySubsolarPoint
  \/ ApplyStationFlags
  \/ ApplyHandleDateChange

SpecFn == InitFn /\ [][NextFn]_vars

\* ------------------------------------------------------------------------
\* debounce(fn, ms) on its own: one debounced function, the clock and the
\* timers of the page
\* ------------------------------------------------------------------------

\* The arguments the debounced function is called with (dates, by number).
DebounceArgs == {1, 2}

\* The clock advances in steps of these many milliseconds.
ClockSteps == {50, 100, DEBOUNCE_MS}

\* The clock of the model stops here, and a run makes at most this many calls.
MaxNow == 500
MaxDebounceCalls == 3

\* A debounced function that forgets clearTimeout.
debouncedWithoutClear(d, args, ms) ==
  [d EXCEPT !.timers = @ \cup {[id |-> d.nextId, due |-> d.now + ms, args |-> args]},
            !.timeoutId = d.nextId,
            !.nextId = @ + 1]

\* The function debounce returns, called with args: clearTimeout(timeoutId)
\* removes the timer with that id if it is still pending (an id that is
\* undefined, 0 here, or that has fired removes nothing), and
\* timeoutId = setTimeout(() => fn.apply(null, args), ms) adds a timer.
debounced(d, args, ms) ==
  [d EXCEPT !.timers = {t \in @ : t.id # d.timeoutId}
                         \cup {[id |-> d.nextId, due |-> d.now + ms, args |-> args]},
            !.timeoutId = d.nextId,
            !.nextId = @ + 1]

\* debounce(fn, 150) as constructed: timeoutId undefined, no timer, no call.
\* late records, for the properties, that a timer did not run at its time.
InitDebounce ==
  /\ InitComponents
  /\ fn = [op |-> "debounce", now |-> 0, nextId |-> 1, timeoutId |-> 0,
           timers |-> {}, calls |-> << >>, invoked |-> << >>, late |-> FALSE]

\* The time of a pending timer has come.
TimerDue == \E t \in fn.timers : t.due <= fn.now

\* A call of the debounced function.  It runs as a task of the one thread like
\* the timer callback: a timer whose time has come while another task kept the
\* thread is still pending when the call runs, and the call clears it.
DebouncedCall(args) ==
  /\ Len(fn.calls) < MaxDebounceCalls
  /\ \E d \in {debounced(fn, args, DEBOUNCE_MS)} :
       fn' = [d EXCEPT !.calls = Append(@, [at |-> fn.now, args |-> args]),
                       !.late = @ \/ TimerDue]
  /\ UNCHANGED << varsMain, p1, p0 >>

\* The timer callback, fn.apply(null, args): it runs when the time of the
\* timer has come and the thread is free, at that time or later.
TimerFires ==
  /\ \E t \in fn.timers :
       /\ t.due <= fn.now
       /\ fn' = [fn EXCEPT !.timers = @ \ {t},
                           !.invoked = Append(@, [at |-> fn.now, args |-> t.args]),
                           !.late = @ \/ t.due < fn.now]
  /\ UNCHANGED << varsMain, p1, p0 >>

\* Time passes, the thread being free or kept by a task.
ClockAdvances ==
  /\ \E step \in ClockSteps :
       /\ fn.now + step <= MaxNow
       /\ fn' = [fn EXCEPT !.now = @ + step]
  /\ UNCHANGED << varsMain, p1, p0 >>

NextDebounce ==
  \/ \E args \in DebounceArgs : DebouncedCall(args)
  \/ TimerFires
  \/ ClockAdvances

SpecDebounce == InitDebounce /\ [][NextDebounce]_vars

\* ------------------------------------------------------------------------
\* Properties
\* ------------------------------------------------------------------------

\* The flags the forEach of updateStationVisibility gives station i for the
\* projection and the satellite document of the state.
FlagsCurrent(i) == xBandStations[i] = StationFlags(xBandStations[i], projection, satelliteData)

\* The rotation calculateEarthOrientation gives for selectedDate, as the
\* projection holds it.
AtTarget == projection.rotate = Rotate(projection, TargetRotation(selectedDate)).rotate

\* C1: in every state in which a satellite document has been fetched, the
\* flags of every station are (front hemisphere under the current rotation)
\* and isInCone(station, last fetched triple, cone).
C1_FlagsFollowFetchedSatellite ==
  ~IsNull(satelliteData) => \A i \in 1..Len(xBandStations) : FlagsCurrent(i)

\* C2: with every started transition finished (and the container of a
\* positive size), the rotation is the one of the subsolar point of the
\* current selectedDate: no earlier transition has overwritten a later request.
C2_RotationOfSelectedDateAtRest ==
  (transitions = << >> /\ size[1] > 0 /\ size[2] > 0) => AtTarget

\* C3: when the last orientation request was animated and TRANSITION_DURATION
\* has passed since without input, isRotating is false again.
C3_StaticAfterDuration ==
  (hist.last = "animated" /\ hist.idle >= TRANSITION_DURATION) => ~isRotating

\* C4: when the last orientation request was animated and TRANSITION_DURATION
\* has passed since without input, the projection is rotated to the subsolar
\* point of the request's timestamp, whatever is rendered.
C4_AnimatedUpdateReachesTarget ==
  (hist.last = "animated" /\ hist.idle >= TRANSITION_DURATION) => AtTarget

\* C5: the slider events of one burst (each within the quiet period of the one
\* before) cause at most one orientation computation.
C5_OneComputationPerBurst == hist.calcs <= 1

\* C6: with no updateVisualization call in flight, the satellite document at
\* hand was asked for after the last change of the selected time.
C6_SatelliteOfSelectedTime ==
  (uv.pc = "done" /\ ~IsNull(satelliteData)) => ~hist.stale

\* C7: xBandStations never mixes two computations: either no station has been
\* given flags yet, or the flags of all stations are those of one run of
\* updateStationVisibility, on the projection and the document of the state.
C7_FlagsOfOneComputation ==
  \/ \A i \in 1..Len(xBandStations) :
       ~xBandStations[i].canSeeDscovr /\ ~xBandStations[i].canSeeAce
  \/ /\ ~IsNull(satelliteData)
     /\ \A i \in 1..Len(xBandStations) : FlagsCurrent(i)

\* C7, the case: updateStationVisibility has run with a station in view and in
\* the cone and another one not.
C7_SomeStationsInView ==
  /\ ~IsNull(satelliteData)
  /\ \E i, j \in 1..Len(xBandStations) :
       xBandStations[i].canSeeDscovr /\ ~xBandStations[j].canSeeDscovr

\* C8: a step in which a fetch of EPIC data fails while an EPIC record is
\* loaded (part_001) sets error and leaves the record and the projection's
\* rotation as they were.
C8_FailureKeepsLastGood ==
  [][(p1'.event = "epicFailed" /\ ~IsNull(p1.epicData)) =>
       /\ ~IsNull(p1'.error)
       /\ p1'.epicData = p1.epicData
       /\ p1'.projection.rotate = p1.projection.rotate]_vars

\* C9: when updateVisualization has ended after one of its fetches failed, no
\* exception has left it, loading is false and error is set.
C9_FailureEndsInErrorState ==
  (uv.pc = "done" /\ uv.failed) => (~uv.escaped /\ ~loading /\ ~IsNull(error))

\* C10: a user's change of the selected time while error is set (and no call is
\* in flight) starts updateVisualization again.
C10_TimeChangeRetries ==
  [][(uv.pc = "done" /\ ~IsNull(error) /\ selectedDate' # selectedDate)
       => uv'.pc # "done"]_vars

\* The record the EPIC service has for a day and a time, or Null.
RecordP0(day, time) ==
  LET records == EpicService(day)
      found == {k \in 1..Len(records) : records[k].date[2] = time}
  IN  IF found = {} THEN Null ELSE records[CHOOSE k \in found : TRUE]

\* part_000 displays the record of the current selection: subsolarPoint,
\* earthImage and the rotation are the ones fetchEPICData and updateProjection
\* give for it.
ShowsSelectionP0 ==
  LET rec == RecordP0(p0.selectedDate, p0.selectedTime)
  IN  /\ ~IsNull(rec)
      /\ p0.subsolarPoint = rec.centroid_coordinates
      /\ p0.earthImage = << rec.date[1], rec.image >>
      /\ p0.projection.rotate = updateProjection(p0, rec).projection.rotate

\* C11: when fetch cycles started by successive date/time changes have
\* overlapped and all of them have completed without a failure (part_000),
\* the displayed subsolarPoint, earthImage and rotation are those of the
\* selection requested last, whatever the order of the responses.
C11_LaterSelectionDisplayed ==
  (p0.calls = << >> /\ p0.overlap /\ ~p0.failed) => ShowsSelectionP0

\* The cosine of the angular distance between two points of the sphere by the
\* spherical law of cosines, times TrigScale squared.
CosAngularDistance(lon1, lat1, lon2, lat2) ==
  Sin(lat1) * Sin(lat2) + TDiv(Cos(lat1) * Cos(lat2), TrigScale) * Cos(lon1 - lon2)

\* C12: isPointVisible(lon, lat) is true exactly when the cosine of the angular
\* distance between the point and the centre (-lambda, -phi) of the current
\* rotation is strictly positive; with a cosine of 0 (the point on the horizon)
\* it is false.  A cosine within the error of the grid is taken for 0 or left
\* alone: the test is required to be true above the error, false below it and
\* false where the grid gives 0.
C12_VisibleIffCosinePositive ==
  fn.op = "isPointVisible" =>
    LET r == Rotate(geoOrthographic(300, 300), fn.args.rot).rotate
        c == CosAngularDistance(fn.args.lon, fn.args.lat, -r[1], -r[2])
    IN  /\ c > 5 * TrigScale => fn.out
        /\ c < -5 * TrigScale => ~fn.out
        /\ c = 0 => ~fn.out

\* C12 off the horizon: the test is true for a cosine above the error of the
\* grid and false for a cosine below it.
C12_VisibleIffCosinePositiveOffHorizon ==
  fn.op = "isPointVisible" =>
    LET r == Rotate(geoOrthographic(300, 300), fn.args.rot).rotate
        c == CosAngularDistance(fn.args.lon, fn.args.lat, -r[1], -r[2])
    IN  /\ c > 5 * TrigScale => fn.out
        /\ c < -5 * TrigScale => ~fn.out

\* C13: in every variant, after the projection has been rotated to a point the
\* way the orientation code rotates it to the subsolar point, the visibility
\* test reports the point visible and its antipode not visible.
C13_OwnPointVisibleAntipodeNot ==
  fn.op = "orientation" => (fn.out.point /\ ~fn.out.antipode)

\* C13 for EarthVisualizer.svelte and part_001 alone (the same code in both).
C13_OwnPointVisibleInEarthVisualizer ==
  (fn.op = "orientation" /\ fn.out.variant = "EarthVisualizer")
    => (fn.out.point /\ ~fn.out.antipode)

\* The angle in microdegrees between the unit zenith vector of a station and
\* the normalised satellite vector, as far as the fixed-point numbers can
\* tell; NaN when there is no angle.
AngleBetween(lat, lon, sat) ==
  With(DotProduct(lat, lon, sat[1], sat[2], sat[3]), LAMBDA dotProduct :
    IF IsNaN(dotProduct) THEN NaN
    ELSE IF ExactDot(lat, lon, sat[1], sat[2], sat[3]) THEN AcosFine(dotProduct)
    ELSE IF Aligned(dotProduct) THEN IF dotProduct > 0 THEN 0 ELSE 180 * Deg
    ELSE AcosFine(dotProduct))

\* That angle, replaced by 180 degrees minus it exactly when the station's
\* latitude is negative.
EffectiveAngle(lat, lon, sat) ==
  LET angle == AngleBetween(lat, lon, sat)
  IN  IF IsNaN(angle) THEN NaN
      ELSE IF lat < 0 THEN 180 * Deg - angle
      ELSE angle

\* C14: isInCone is true exactly when effectiveAngle <= coneAngle / 2 (a
\* comparison with NaN being false).
C14_InConeIffWithinHalfCone ==
  fn.op = "isInCone" =>
    LET e == EffectiveAngle(fn.args.lat, fn.args.lon, fn.args.sat)
    IN  fn.out.inCone = (~IsNaN(e) /\ 2 * e <= fn.args.cone)

\* C14 off the cone: where effectiveAngle differs from coneAngle / 2 by more
\* than the error of the angle, and the satellite is not at the zenith or the
\* nadir but for the rounding, isInCone is true exactly when effectiveAngle is
\* the smaller.
C14_InConeIffWithinHalfConeOffTheCone ==
  fn.op = "isInCone" =>
    LET sat == fn.args.sat
        e == EffectiveAngle(fn.args.lat, fn.args.lon, sat)
        dotProduct == DotProduct(fn.args.lat, fn.args.lon, sat[1], sat[2], sat[3])
        err == AngleError(dotProduct,
                          ExactDot(fn.args.lat, fn.args.lon, sat[1], sat[2], sat[3]))
    IN  (/\ ~IsNaN(e)
         /\ Abs(2 * e - fn.args.cone) > 2 * err
         /\ ~Aligned(dotProduct) \/ ExactDot(fn.args.lat, fn.args.lon, sat[1], sat[2], sat[3])) =>
          fn.out.inCone = (2 * e <= fn.args.cone)

\* C15: isInCone is monotonic in the cone angle: true for a cone angle, it is
\* true for every wider one, for every station and satellite vector, the zero
\* vector included.
C15_MonotonicInConeAngle ==
  fn.op = "isInCone" => (fn.out.inCone => fn.out.inWiderCone)

\* C15, the cases: a satellite outside a cone and inside a wider one, and the
\* zero vector tested with two cone angles.
C15_WiderConeAdmits ==
  /\ fn.op = "isInCone"
  /\ fn.args.cone < fn.args.widerCone
  /\ ~fn.out.inCone /\ fn.out.inWiderCone

\* C16: for a station at (0, 0), a satellite in direction (1, 0, 0) is in a
\* cone of 170 degrees, and a satellite in direction (-1, 0, 0) is in no cone
\* of less than 360 degrees.
C16_OverheadAndOpposite ==
  (fn.op = "isInCone" /\ fn.args.lat = 0 /\ fn.args.lon = 0) =>
    /\ (fn.args.sat = <<1, 0, 0>> /\ fn.args.cone = 170 * Deg) => fn.out.inCone
    /\ (fn.args.sat = <<-1, 0, 0>> /\ fn.args.cone < 360 * Deg) => ~fn.out.inCone

\* C16, the case: the station at (0, 0) has been tested with the satellite
\* overhead and a cone of 170 degrees.
C16_OverheadTested ==
  /\ fn.op = "isInCone" /\ fn.args.lat = 0 /\ fn.args.lon = 0
  /\ fn.args.sat = <<1, 0, 0>> /\ fn.args.cone = 170 * Deg /\ fn.out.inCone

\* C17: the subsolar points computed for any two instants have latitudes in
\* [-23.44, 23.44] degrees and longitudes in one normalised range, both in
\* (-180, 180] or both in [0, 360).
C17_SubsolarPointInRange ==
  fn.op = "subsolar" =>
    /\ \A k \in 1..2 : fn.out[k].lat >= -23440000 /\ fn.out[k].lat <= 23440000
    /\ \/ \A k \in 1..2 : fn.out[k].lon > -180 * Deg /\ fn.out[k].lon <= 180 * Deg
       \/ \A k \in 1..2 : fn.out[k].lon >= 0 /\ fn.out[k].lon < 360 * Deg

\* C17, for the longitudes of instants after J2000 alone.
C17_LongitudesAfterJ2000InOneRange ==
  (fn.op = "subsolar" /\ \A k \in 1..2 : fn.args.dates[k] > J2000) =>
    \/ \A k \in 1..2 : fn.out[k].lon > -180 * Deg /\ fn.out[k].lon <= 180 * Deg
    \/ \A k \in 1..2 : fn.out[k].lon >= 0 /\ fn.out[k].lon < 360 * Deg

\* C18: in every variant the orientation code leaves the projection rotated to
\* (-lon, -lat, 0) of the point (lon, lat) it is oriented to (longitudes that
\* differ by a full turn being the same), which makes the point the centre.
C18_RotatedToMinusLonMinusLat ==
  fn.op = "orientation" =>
    /\ JsRem(fn.out.rotate[1] + fn.args.lon, 360 * Deg) = 0
    /\ fn.out.rotate[2] = -fn.args.lat
    /\ fn.out.rotate[3] = 0

\* C18 for EarthVisualizer.svelte and part_001 alone.
C18_RotatedInEarthVisualizer ==
  (fn.op = "orientation" /\ fn.out.variant = "EarthVisualizer") =>
    /\ JsRem(fn.out.rotate[1] + fn.args.lon, 360 * Deg) = 0
    /\ fn.out.rotate[2] = -fn.args.lat
    /\ fn.out.rotate[3] = 0

\* The vectors updateStationVisibility hands to isInCone for a projection and
\* a satellite document: <<xCoords[lastIndex], yCoords[lastIndex],
\* zCoords[lastIndex]>> once for every pass of the forEach in which visible is
\* true (the && does not evaluate isInCone otherwise).
ConeTestVectors(proj, sat) ==
  LET lastIndex == Len(sat.X)
      At(texts) == IF lastIndex \in 1..Len(texts) THEN ParseCoord(texts[lastIndex])
                   ELSE NaN
  IN  {<< At(sat.X), At(sat.Y), At(sat.Z) >> :
         i \in {k \in 1..Len(Stations) :
                  isPointVisible(proj, ProjectionPoint(proj, Stations[k].lon,
                                                       Stations[k].lat),
                                 Stations[k].lon, Stations[k].lat)}}

\* C19: updateStationVisibility never evaluates isInCone on a degenerate
\* satellite vector: with an EPIC record and a satellite document at hand (the
\* condition under which it runs), no vector it hands to isInCone for the
\* projection and the document of the state is (0, 0, 0) or has an undefined
\* (NaN) component.
C19_NoConeTestOnDegenerateVector ==
  (~IsNull(epicData) /\ ~IsNull(satelliteData)) =>
    \A v \in ConeTestVectors(projection, satelliteData) :
      /\ v # <<0, 0, 0>>
      /\ \A k \in 1..3 : ~IsNaN(v[k])

\* C20: a request for an animated update keeps the rotation of that moment and
\* the target; and every step of the transition (a frame: time passes while
\* the transition is pending) sets the rotation to the interpolation of
\* longitude and latitude between the two, at the eased time of the frame, and
\* leaves the flags of every station as the visibility test and the cone test
\* give them for that rotation and the fetched satellite positions.
C20_TweenStepInterpolatesAndRefreshes ==
  [][/\ Len(transitions') > Len(transitions) =>
          LET tr == transitions'[Len(transitions')]
          IN  /\ tr.from = << projection.rotate[1], projection.rotate[2] >>
              /\ tr.to = << TargetRotation(selectedDate')[1],
                            TargetRotation(selectedDate')[2] >>
     /\ (transitions # << >> /\ hist'.idle > hist.idle) =>
          LET tr == transitions[Len(transitions)]
              t == TweenTime(Min(tr.elapsed + TickMs, TRANSITION_DURATION))
          IN  /\ projection'.rotate =
                   Rotate(projection, << interpolate(tr.from[1], tr.to[1], t),
                                         interpolate(tr.from[2], tr.to[2], t), 0 >>).rotate
              /\ ~IsNull(satelliteData') =>
                   \A i \in 1..Len(xBandStations') :
                     xBandStations'[i] =
                       StationFlags(xBandStations'[i], projection', satelliteData')
    ]_vars

\* C20 with an EPIC record: the same, the flags of a step being those of the
\* interpolated rotation in the steps that are made with an EPIC record held.
C20_TweenStepRefreshesWithEpicRecord ==
  [][/\ Len(transitions') > Len(transitions) =>
          LET tr == transitions'[Len(transitions')]
          IN  /\ tr.from = << projection.rotate[1], projection.rotate[2] >>
              /\ tr.to = << TargetRotation(selectedDate')[1],
                            TargetRotation(selectedDate')[2] >>
     /\ (transitions # << >> /\ hist'.idle > hist.idle) =>
          LET tr == transitions[Len(transitions)]
              t == TweenTime(Min(tr.elapsed + TickMs, TRANSITION_DURATION))
          IN  /\ projection'.rotate =
                   Rotate(projection, << interpolate(tr.from[1], tr.to[1], t),
                                         interpolate(tr.from[2], tr.to[2], t), 0 >>).rotate
              /\ (~IsNull(epicData') /\ ~IsNull(satelliteData')) =>
                   \A i \in 1..Len(xBandStations') :
                     xBandStations'[i] =
                       StationFlags(xBandStations'[i], projection', satelliteData')
    ]_vars

\* The calls that end a maximal burst (the next call, if any, comes at least
\* ms later) and whose delay of ms has passed, as the invocations they call for.
RECURSIVE BurstEnds(_, _, _)
BurstEnds(calls, now, ms) ==
  IF calls = << >> THEN << >>
  ELSE LET c == Head(calls)
           last == Len(calls) = 1 \/ calls[2].at - c.at >= ms
       IN  IF last /\ c.at + ms <= now
           THEN << [at |-> c.at + ms, args |-> c.args] >> \o BurstEnds(Tail(calls), now, ms)
           ELSE BurstEnds(Tail(calls), now, ms)

\* C21 as stated: a debounced function has at most one timer pending; each
\* call of it cancels the pending timer and schedules one for ms later with the
\* call's arguments; and once the timers that are due have run, fn has been
\* invoked exactly once per maximal burst of calls, ms after the burst's last
\* call and with that call's arguments.
C21_OneInvocationPerBurst ==
  LET last == fn.calls[Len(fn.calls)]
  IN  /\ Cardinality(fn.timers) <= 1
      /\ \A t \in fn.timers :
           /\ fn.calls # << >>
           /\ t = [id |-> fn.timeoutId, due |-> last.at + DEBOUNCE_MS, args |-> last.args]
      /\ fn.calls # << >> /\ last.at + DEBOUNCE_MS > fn.now => fn.timers # {}
      /\ ~TimerDue => fn.invoked = BurstEnds(fn.calls, fn.now, DEBOUNCE_MS)

\* invoked is a run of the timers of calls: invocation k is that of call j[k],
\* ms after the call or later, with its arguments, and before the call that
\* follows it; the calls in between had their timers cleared.
InvokedFor(j) ==
  \A k \in 1..Len(fn.invoked) :
    /\ k > 1 => j[k - 1] < j[k]
    /\ fn.invoked[k].args = fn.calls[j[k]].args
    /\ fn.invoked[k].at >= fn.calls[j[k]].at + DEBOUNCE_MS
    /\ j[k] < Len(fn.calls) => fn.invoked[k].at <= fn.calls[j[k] + 1].at

\* C21, for timers that run when their time has come or later: a debounced
\* function has at most one timer pending, that of its last call, due ms after
\* the call and with its arguments; fn is invoked once for every call whose
\* timer no later call has cleared, ms after that call or later and with that
\* call's arguments; the timer of the last call is pending until then; and
\* when every timer has run at its time, fn has been invoked exactly once per
\* maximal burst of calls, ms after the burst's last call.
C21_OneInvocationPerUnclearedTimer ==
  LET last == fn.calls[Len(fn.calls)]
      n == Len(fn.invoked)
  IN  /\ Cardinality(fn.timers) <= 1
      /\ \A t \in fn.timers :
           /\ fn.calls # << >>
           /\ t = [id |-> fn.timeoutId, due |-> last.at + DEBOUNCE_MS, args |-> last.args]
      /\ \E j \in [1..n -> 1..Len(fn.calls)] :
           /\ InvokedFor(j)
           /\ fn.calls # << >> => (fn.timers = {} <=> (n > 0 /\ j[n] = Len(fn.calls)))
      /\ ~fn.late /\ ~TimerDue => fn.invoked = BurstEnds(fn.calls, fn.now, DEBOUNCE_MS)

\* A call came ms or more after the one before it, whose timer was still
\* pending, and fn has been invoked once, for the later call.
C21_OverdueTimerCleared ==
  /\ fn.op = "debounce"
  /\ fn.late
  /\ Len(fn.calls) = 2 /\ fn.calls[2].at - fn.calls[1].at >= DEBOUNCE_MS
  /\ fn.calls[1].args # fn.calls[2].args
  /\ Len(fn.invoked) = 1 /\ fn.invoked[1].args = fn.calls[2].args
  /\ fn.timers = {}

\* C22: a step that changes the size of the container to a positive width and
\* height leaves the projection rebuilt for that size and rotated for
\* selectedDate, with or without a transition running; and at rest, at a
\* positive size, the projection does not have the default rotation (0, 0, 0)
\* unless that is the rotation of selectedDate.
C22_ResizeRebuildsAndRotates ==
  /\ [](size[1] > 0 /\ size[2] > 0 /\ transitions = << >>
         /\ TargetRotation(selectedDate) # << 0, 0, 0 >>
         => projection.rotate # << 0, 0, 0 >>)
  /\ [][size' # size /\ size'[1] > 0 /\ size'[2] > 0
         => projection' = Rotate(geoOrthographic(size'[1], size'[2]),
                                 TargetRotation(selectedDate'))]_vars

\* The container has a positive size, a transition is half way on an svg
\* element that a render has replaced since, and the projection has the
\* rotation of selectedDate and not the one of the transition's frame.
C22_ResizedMidTransition ==
  /\ size[1] > 0 /\ size[2] > 0
  /\ svg # 0
  /\ Len(transitions) = 1
  /\ transitions[1].elapsed > 0
  /\ transitions[1].node # svg
  /\ projection.rotate = Rotate(projection, TargetRotation(selectedDate)).rotate
  /\ << projection.rotate[1], projection.rotate[2] >>
       # << interpolate(transitions[1].from[1], transitions[1].to[1],
                        TweenTime(transitions[1].elapsed)),
            interpolate(transitions[1].from[2], transitions[1].to[2],
                        TweenTime(transitions[1].elapsed)) >>

\* C23: after a pass of updateStationVisibility over a station, canSeeDscovr or
\* canSeeAce is true only if the projection returned a point for the station
\* and the station is on the front hemisphere (the cosine of its angular
\* distance from the centre of the rotation is positive); when the projection
\* returns null, both flags are false.
C23_FlagsOnlyForProjectedFrontStations ==
  fn.op = "stationFlags" =>
    LET station == Stations[fn.args.station]
        r == Rotate(geoOrthographic(300, 300), fn.args.rot).rotate
    IN  /\ ~fn.out.notReturned.canSeeDscovr /\ ~fn.out.notReturned.canSeeAce
        /\ fn.out.returned.canSeeDscovr \/ fn.out.returned.canSeeAce
             => CosAngularDistance(station.lon, station.lat, -r[1], -r[2]) > 0

\* A station in front and in the cone: its flags are true with the point the
\* projection returns and false with null.
C23_FlagsDroppedWithoutPoint ==
  /\ fn.op = "stationFlags"
  /\ fn.out.returned.canSeeDscovr /\ fn.out.returned.canSeeAce
  /\ ~fn.out.notReturned.canSeeDscovr /\ ~fn.out.notReturned.canSeeAce

\* C24: in every reachable state every station has canSeeDscovr = canSeeAce
\* (both are set by one expression over the last X, Y and Z of the document).
C24_BothFlagsEqual ==
  \A i \in 1..Len(xBandStations) :
    xBandStations[i].canSeeDscovr = xBandStations[i].canSeeAce

\* The flags have been computed from a document with samples of both
\* satellites: a station has both flags true and another has both false.
C24_FlagsSetFromDocument ==
  /\ satelliteData = DocL1
  /\ \E i \in 1..Len(xBandStations) :
       xBandStations[i].canSeeDscovr /\ xBandStations[i].canSeeAce
  /\ \E i \in 1..Len(xBandStations) :
       ~xBandStations[i].canSeeDscovr /\ ~xBandStations[i].canSeeAce

\* C25: a step that ends with epicData or satelliteData null leaves the flags
\* of every station as they were (updateStationVisibility does nothing then);
\* and while epicData is null, as it stays when the EPIC fetch failed at load,
\* every flag has its initial value false, whatever the rotation and the
\* satellite document.
C25_NoFlagsWithoutEpicOrSatellite ==
  /\ [](IsNull(epicData) => xBandStations = InitialStations)
  /\ [][IsNull(epicData') \/ IsNull(satelliteData') => xBandStations' = xBandStations]_vars

\* The EPIC fetch failed at load, a satellite document was fetched, the
\* projection was rotated since for another instant, and a station that the
\* forEach would flag has its flags false.
C25_RotatedWithoutEpic ==
  /\ uv.pc = "done" /\ uv.failed
  /\ IsNull(epicData)
  /\ satelliteData = DocL1
  /\ selectedDate # LoadTime
  /\ projection.rotate = Rotate(projection, TargetRotation(selectedDate)).rotate
  /\ \E i \in 1..Len(xBandStations) :
       /\ StationFlags(xBandStations[i], projection, satelliteData).canSeeDscovr
       /\ ~xBandStations[i].canSeeDscovr

\* The satellite vector sat is exactly k times the zenith direction of the
\* station at (lat, lon), k = 1 for along and k = -1 for opposite: the length
\* of sat is a whole number and sat, scaled to length TrigScale, is the unit
\* vector of the station.
AlongZenith(lat, lon, sat, k) ==
  ~IsNaN(sat[1]) /\
    LET sq == sat[1] * sat[1] + sat[2] * sat[2] + sat[3] * sat[3]
        n == Sqrt(sq)
    IN  /\ n > 0 /\ n * n = sq
        /\ k * TrigScale * sat[1] = n * TDiv(Cos(lat) * Cos(lon), TrigScale)
        /\ k * TrigScale * sat[2] = n * TDiv(Cos(lat) * Sin(lon), TrigScale)
        /\ k * TrigScale * sat[3] = n * Sin(lat)

\* C26: for every station and every cone angle in [0, 360), a satellite
\* exactly along the station's zenith direction is in the cone and a satellite
\* exactly opposite to it is not.
C26_ZenithInConeOppositeNot ==
  (fn.op = "isInCone" /\ fn.args.cone < 360 * Deg) =>
    /\ AlongZenith(fn.args.lat, fn.args.lon, fn.args.sat, 1) => fn.out.inCone
    /\ AlongZenith(fn.args.lat, fn.args.lon, fn.args.sat, -1) => ~fn.out.inCone

\* C26 for the stations on and north of the equator, where it holds.
C26_ZenithInConeNorthOfEquator ==
  (fn.op = "isInCone" /\ fn.args.cone < 360 * Deg /\ fn.args.lat >= 0) =>
    /\ AlongZenith(fn.args.lat, fn.args.lon, fn.args.sat, 1) => fn.out.inCone
    /\ AlongZenith(fn.args.lat, fn.args.lon, fn.args.sat, -1) => ~fn.out.inCone

\* C27: after handleDateChange with slider value v, selectedDate has the local
\* year, month and day of the month of v and the local hours, minutes and
\* seconds it had before, for every previous date and every v.
C27_SliderDateTaken ==
  fn.op = "handleDateChange" =>
    /\ getFullYear(fn.out) = getFullYear(fn.args.value)
    /\ getMonth(fn.out) = getMonth(fn.args.value)
    /\ getDate(fn.out) = getDate(fn.args.value)
    /\ getHours(fn.out) = getHours(fn.args.selected)
    /\ getMinutes(fn.out) = getMinutes(fn.args.selected)
    /\ getSeconds(fn.out) = getSeconds(fn.args.selected)

\* C27 when the day of the month of the previous date exists in the month of
\* v and in the previous month of the year of v, where it holds.
C27_SliderDateTakenWhenDayExists ==
  (fn.op = "handleDateChange"
     /\ getDate(setFullYear(fn.args.selected, getFullYear(fn.args.value)))
          = getDate(fn.args.selected)
     /\ getMonth(setMonth(setFullYear(fn.args.selected, getFullYear(fn.args.value)),
                          getMonth(fn.args.value)))
          = getMonth(fn.args.value))
    => C27_SliderDateTaken

\* C28: in part_001, loading is true exactly while at least one
\* updateVisualization call is in flight; the completion of one call does not
\* set it to false while another call is still in flight.
C28_LoadingIffCallInFlight == p1.loading = (p1.calls # << >>)

\* C28, the part that holds: loading is false once no call is in flight, and
\* it is true only while a call is in flight.
C28_NotLoadingWhenSettled == p1.loading => p1.calls # << >>

\* C29: in part_000, whenever no fetch is in flight and availableTimes is not
\* empty, selectedTime is one of availableTimes and subsolarPoint, earthImage
\* and the rotation of the projection are those of the record for
\* (selectedDate, selectedTime).
C29_AtRestShowsSelection ==
  (p0.calls = << >> /\ p0.availableTimes # << >>) =>
    /\ \E k \in 1..Len(p0.availableTimes) : p0.availableTimes[k] = p0.selectedTime
    /\ ShowsSelectionP0

\* C30: in part_000, a step in which fetchEPICData fails (HTTP error, empty
\* list, no record of selectedTime) ends the call without a fetch of satellite
\* data and leaves subsolarPoint, earthImage, satelliteData, availableTimes and
\* the projection as they were.
C30_FailedFetchChangesNothing ==
  [][p0'.event = "epicFailed" =>
       /\ Len(p0'.calls) = Len(p0.calls) - 1
       /\ Cardinality({i \in 1..Len(p0'.calls) : p0'.calls[i].pc = "sat"})
            = Cardinality({i \in 1..Len(p0.calls) : p0.calls[i].pc = "sat"})
       /\ p0'.subsolarPoint = p0.subsolarPoint
       /\ p0'.earthImage = p0.earthImage
       /\ p0'.satelliteData = p0.satelliteData
       /\ p0'.availableTimes = p0.availableTimes
       /\ p0'.projection = p0.projection]_vars

\* C30 without availableTimes, which holds.
C30_FailedFetchKeepsDisplay ==
  [][p0'.event = "epicFailed" =>
       /\ Len(p0'.calls) = Len(p0.calls) - 1
       /\ Cardinality({i \in 1..Len(p0'.calls) : p0'.calls[i].pc = "sat"})
            = Cardinality({i \in 1..Len(p0.calls) : p0.calls[i].pc = "sat"})
       /\ p0'.subsolarPoint = p0.subsolarPoint
       /\ p0'.earthImage = p0.earthImage
       /\ p0'.satelliteData = p0.satelliteData
       /\ p0'.projection = p0.projection]_vars

====
